---- MODULE Spec2Model ----
(***************************************************************************)
(* Model of the directory reader of python-send-ai (src/main.py): path     *)
(* validation, the structure listing, the file collection, the thread pool *)
(* that reads the files, and the aggregation of the output.                *)
(*                                                                         *)
(* A Python str is a sequence of one-character strings, so that substring  *)
(* tests, extension splitting, case folding and regular expressions are    *)
(* computed character by character, as the code computes them.             *)
(***************************************************************************)
EXTENDS Naturals, Integers, Sequences, FiniteSets, TLC

\* number of successive runs of main over the same tree
MaxRuns == 2

\* ThreadPoolExecutor(max_workers=4)
MaxWorkers == 4

\* width of the separator line of a content block: '-' * 40
SepWidth == 40

(***************************************************************************)
(* Character strings                                                       *)
(***************************************************************************)
UPPER ==
    <<"A","B","C","D","E","F","G","H","I","J","K","L","M","N","O","P","Q","R","S","T","U","V","W","X","Y","Z">>
LOWER ==
    <<"a","b","c","d","e","f","g","h","i","j","k","l","m","n","o","p","q","r","s","t","u","v","w","x","y","z">>
DIGITS ==
    <<"0","1","2","3","4","5","6","7","8","9">>

UpperSet == {UPPER[i] : i \in 1..26}
Whitespace == {" ", "\n", "\t"}

\* str.lower() on one character
LowerOf == [c \in UpperSet |-> LOWER[CHOOSE i \in 1..26 : UPPER[i] = c]]
LowerChar(c) == IF c \in UpperSet THEN LowerOf[c] ELSE c

\* str.lower()
Lower(s) == [i \in 1..Len(s) |-> LowerChar(s[i])]

\* the Python test  s in t  on strings
IsSubstr(s, t) == \E i \in 0..(Len(t) - Len(s)) : SubSeq(t, i + 1, i + Len(s)) = s

\* ''.join(list), the list joined half by half
RECURSIVE ConcatRange(_, _, _)
ConcatRange(ss, lo, hi) ==
    IF lo > hi THEN <<>>
    ELSE IF lo = hi THEN ss[lo]
    ELSE LET mid == (lo + hi) \div 2
         IN  ConcatRange(ss, lo, mid) \o ConcatRange(ss, mid + 1, hi)
Concat(ss) == ConcatRange(ss, 1, Len(ss))

\* c * n for a one-character string c
Repeat(c, n) == [i \in 1..n |-> c]

\* str(n) for a natural number
RECURSIVE DecStr(_)
DecStr(n) == IF n < 10 THEN <<DIGITS[n + 1]>> ELSE DecStr(n \div 10) \o <<DIGITS[(n % 10) + 1]>>

SetMax(S) == CHOOSE x \in S : \A y \in S : y <= x

\* os.path.splitext(name)[1] for a name without separator: the extension
\* starts at the last period, unless only periods come before it
SplitExt(name) ==
    LET dots == {i \in 1..Len(name) : name[i] = "."}
    IN  IF dots = {} THEN <<>>
        ELSE LET d == SetMax(dots)
             IN  IF \E j \in 1..(d - 1) : name[j] # "."
                 THEN SubSeq(name, d, Len(name))
                 ELSE <<>>

Msg_NotExist ==
    <<"P","a","t","h"," ","d","o","e","s"," ","n","o","t"," ","e","x","i","s","t",":"," ">>

Str_ErrList ==
    <<"[","E","R","R","O","R","]"," ","C","o","u","l","d"," ","n","o","t"," ","l","i","s","t"," ","d","i","r","e","c","t","o","r","y"," ">>

Str_ErrRead ==
    <<"[","E","R","R","O","R","]"," ","C","o","u","l","d"," ","n","o","t"," ","r","e","a","d"," ">>

Str_ErrProc ==
    <<"[","E","R","R","O","R","]"," ","C","o","u","l","d"," ","n","o","t"," ","p","r","o","c","e","s","s"," ","d","i","r","e","c","t","o","r","y"," ">>

MASKED ==
    <<"[","M","A","S","K","E","D"," ","S","E","N","S","I","T","I","V","E"," ","C","O","N","T","E","N","T","]">>

Str_File ==
    <<"F","i","l","e",":"," ">>

Str_FolderStructure ==
    <<"F","o","l","d","e","r"," ","S","t","r","u","c","t","u","r","e">>

Str_FileContents ==
    <<"F","i","l","e"," ","C","o","n","t","e","n","t","s">>

\* the backquote character, which a TLA+ string cannot hold
BQ == "bq"

Str_Fence ==
    <<BQ,BQ,BQ>>
Err_EIO ==
    <<"[","E","r","r","n","o"," ","5","]"," ","I","n","p","u","t","/","o","u","t","p","u","t"," ","e","r","r","o","r">>
Err_Codec ==
    <<"u","n","k","n","o","w","n"," ","e","n","c","o","d","i","n","g",":"," ">>

(***************************************************************************)
(* The file system the runs read                                           *)
(***************************************************************************)
N_w ==
    <<"w">>
N_p ==
    <<"p">>
N_src ==
    <<"s","r","c">>
N_lib ==
    <<"l","i","b">>
N_out ==
    <<"o","u","t">>
Ext_py ==
    <<".","p","y">>
Kw_import ==
    <<"I","M","P","O","R","T">>
Kw_masked ==
    <<"m","a","s","k","e","d">>

\* the working directory of the process
Cwd == <<N_w>>

\* the nodes of the tree: 1 is the root p, with src/{a.py, lib/{k.py}, out},
\* out/{o.LOG} and r.txt below it; node 9 is a regular file named like the
\* folder out
NodeName == <<N_p, N_src, <<"a",".","p","y">>, N_lib, <<"k",".","p","y">>, N_out, <<"o",".","L","O","G">>, <<"r",".","t","x","t">>, N_out>>
NodeParent == <<0, 1, 2, 2, 4, 1, 6, 1, 2>>
RootNode == 1
Nodes == DOMAIN NodeName
DirNodes == {1, 2, 4, 6}
FileNodes == Nodes \ DirNodes

\* modification times, as timestamps
NodeMtime == <<0, 0, 5, 0, 2, 0, 5, 1, 0>>

\* what a file holds; the secret of k.py is one of two values
FileText(c, n) ==
    CASE n = 3 -> <<"i","m","p","o","r","t"," ","o","s","\n","#"," ","c","\n","\n","\n","x"," ","="," ","1","\n">>
      [] n = 5 -> IF c.secret = 1 THEN <<"A","P","I","_","K","E","Y"," ","="," ","'","a","b","'","\n">> ELSE <<"A","P","I","_","K","E","Y"," ","="," ","'","c","d","'","\n">>
      [] n = 7 -> <<"I","m","p","o","r","t","\n">>
      [] n = 8 -> <<"h","e","l","l","o","\n">>
      [] OTHER -> <<"x","\n","\n","\n","y","\n">>

\* os.path.getsize of a regular file
FileSize(c, n) == Len(FileText(c, n))

\* the segments of the absolute path of a node
RECURSIVE Segs(_)
Segs(n) == IF n = RootNode THEN Cwd \o <<NodeName[n]>> ELSE Segs(NodeParent[n]) \o <<NodeName[n]>>

\* the segments of a node's path below the root
RECURSIVE RelSegs(_)
RelSegs(n) == IF n = RootNode THEN <<>> ELSE RelSegs(NodeParent[n]) \o <<NodeName[n]>>

\* os.sep.join(segments)
RECURSIVE JoinSep(_)
JoinSep(segs) ==
    IF segs = <<>> THEN <<>>
    ELSE IF Len(segs) = 1 THEN segs[1]
    ELSE segs[1] \o <<"/">> \o JoinSep(Tail(segs))

\* an absolute path as a string
PathStr(segs) == <<"/">> \o JoinSep(segs)
NodePathStr(n) == PathStr(Segs(n))

\* os.path.relpath(file_path, folder_path) for a file below the root
RelPathStr(n) == JoinSep(RelSegs(n))

\* the path given on the command line: absolute, or relative to Cwd
InputPath(c) == [abs |-> c.rootAbs, segs |-> IF c.rootAbs THEN Cwd \o <<N_p>> ELSE <<N_p>>]
InputStr(p) == IF p.abs THEN PathStr(p.segs) ELSE JoinSep(p.segs)

\* os.path.abspath
AbsPath(p) == IF p.abs THEN p.segs ELSE Cwd \o p.segs

\* what is found at an absolute path: the root is a directory, a regular
\* file or missing; the nodes below it exist when it is a directory
PathKind(c, segs) ==
    IF segs = Segs(RootNode) THEN c.rootKind
    ELSE IF c.rootKind = "dir" /\ \E n \in Nodes : Segs(n) = segs
         THEN LET n == CHOOSE x \in Nodes : Segs(x) = segs
              IN  IF n \notin DirNodes THEN "file"
                  ELSE IF c.dirFault.node = n /\ c.dirFault.kind = "gone" THEN "missing"
                  ELSE "dir"
         ELSE "missing"

\* the order in which the operating system returns the entries of a directory
ChildSeq(d) == SelectSeq([i \in 1..Len(NodeName) |-> i], LAMBDA n : NodeParent[n] = d)
Reverse(s) == [i \in 1..Len(s) |-> s[Len(s) + 1 - i]]
ReadDir(c, d) == IF c.order = "fwd" THEN ChildSeq(d) ELSE Reverse(ChildSeq(d))

(***************************************************************************)
(* Failures of the file system.  c.fault names at most one regular file    *)
(* and what goes wrong with it, c.dirFault at most one directory:          *)
(*   broken   a dangling link: listed, but every stat and open fails       *)
(*   statS    removed after get_structure listed its directory             *)
(*   statC    removed after os.walk of get_file_contents listed it         *)
(*   noopen   cannot be opened (permission denied)                         *)
(*   noread   the sample is read, the full read fails                      *)
(*   badcodec the detector names an encoding Python does not know          *)
(*   lowconf  detector confidence below 0.9 on the sample                  *)
(*   noenc    detector finds no encoding for the sample                    *)
(*   eacces   a directory that cannot be listed                            *)
(*   gone     a directory removed after its parent was listed              *)
(***************************************************************************)
FaultOf(c, n) == IF c.fault.node = n THEN c.fault.kind ELSE "none"

\* os.path.getsize / os.path.getmtime raise inside get_file_contents
StatFailsC(c, n) == FaultOf(c, n) \in {"broken", "statC"}
\* os.listdir / os.scandir of the directory raises
ListFails(c, d) == (c.dirFault.node = d /\ c.dirFault.kind # "none") \/ (d = RootNode /\ c.rootKind # "dir")

\* str(e) of the OSError raised for a path
StatErrMsg(n) == <<"[","E","r","r","n","o"," ","2","]"," ","N","o"," ","s","u","c","h"," ","f","i","l","e"," ","o","r"," ","d","i","r","e","c","t","o","r","y",":"," ">> \o <<"'">> \o NodePathStr(n) \o <<"'">>

(***************************************************************************)
(* validate_path, get_folder_size, format_size                             *)
(***************************************************************************)
\* validate_path without its os.path.isdir test
validate_path_exists_only(c, p) ==
    IF PathKind(c, AbsPath(p)) = "missing"
    THEN [ok |-> FALSE, err |-> "not_exist", msg |-> Msg_NotExist \o InputStr(p), path |-> <<>>]
    ELSE [ok |-> TRUE, err |-> "none", msg |-> <<>>, path |-> AbsPath(p)]

\* validate_path(folder_path): the absolute path, or the ValueError raised
validate_path(c, p) ==
    LET kind == PathKind(c, AbsPath(p))
    IN  IF kind = "missing"
        THEN [ok |-> FALSE, err |-> "not_exist", msg |-> Msg_NotExist \o InputStr(p), path |-> <<>>]
        ELSE IF kind # "dir"
        THEN [ok |-> FALSE, err |-> "not_dir", msg |-> <<"P","a","t","h"," ","i","s"," ","n","o","t"," ","a"," ","d","i","r","e","c","t","o","r","y",":"," ">> \o InputStr(p), path |-> <<>>]
        ELSE [ok |-> TRUE, err |-> "none", msg |-> <<>>, path |-> AbsPath(p)]

\* get_folder_size(folder_path): os.walk skips what it cannot list, and a
\* file that does not exist is left out of the total
RECURSIVE get_folder_size(_, _)
RECURSIVE SumChildren(_, _)
get_folder_size(c, d) == IF ListFails(c, d) THEN 0 ELSE SumChildren(c, ChildSeq(d))
SumChildren(c, kids) ==
    IF kids = <<>> THEN 0
    ELSE (IF Head(kids) \in DirNodes THEN get_folder_size(c, Head(kids))
          ELSE IF FaultOf(c, Head(kids)) = "broken" THEN 0
          ELSE FileSize(c, Head(kids)))
         + SumChildren(c, Tail(kids))

\* the divisor of format_size
Kilo == 1024

RECURSIVE Pow(_, _)
Pow(b, k) == IF k = 0 THEN 1 ELSE b * Pow(b, k - 1)

\* format_size(bytes_size): the first unit in which the value is below 1024,
\* printed with one decimal (the value rounded to the nearest tenth)
format_size(n) ==
    LET ks == {k \in 0..3 : n \div Pow(Kilo, k) < Kilo}
        k == IF ks = {} THEN 4 ELSE CHOOSE x \in ks : \A y \in ks : x <= y
        P == Pow(Kilo, k)
        tenths == (20 * n + P) \div (2 * P)
    IN  DecStr(tenths \div 10) \o <<".">> \o DecStr(tenths % 10) \o << <<"B">>, <<"K", "B">>, <<"M", "B">>, <<"G", "B">>, <<"T", "B">> >>[k + 1]

(***************************************************************************)
(* get_structure                                                           *)
(***************************************************************************)
\* str(e) of the exception that validate_path or os.listdir raises for a
\* directory that cannot be listed
ListErrMsg(d) == <<"[","E","r","r","n","o"," ","1","3","]"," ","P","e","r","m","i","s","s","i","o","n"," ","d","e","n","i","e","d",":"," ">> \o <<"'">> \o NodePathStr(d) \o <<"'">>

ErrorEntry(d, e) ==
    [kind |-> "error", node |-> d, depth |-> 0, last |-> FALSE, size |-> 0, msg |-> e]

\* the entries of the children put before the entry of their directory
AppendDirAfter(ent, sub) == sub \o <<ent>>

\* structure += the line of the directory, then structure += get_structure(item_path, ...)
AppendDir(ent, sub) == <<ent>> \o sub

\* get_structure(folder_path, indent, ...): the entries appended to the
\* listing, or raised = TRUE when an exception leaves the function
RECURSIVE get_structure(_, _, _)
RECURSIVE StructItems(_, _, _, _, _)
\* get_structure with os.listdir outside its try block
get_structure_unguarded(c, d, indent) ==
    LET v == validate_path(c, [abs |-> TRUE, segs |-> Segs(d)])
    IN  IF ~v.ok
        THEN [raised |-> FALSE, entries |-> <<ErrorEntry(d, v.msg)>>]
        ELSE IF ListFails(c, d)
        THEN [raised |-> TRUE, entries |-> <<>>]
        ELSE StructItems(c, d, ReadDir(c, d), 1, indent)

get_structure(c, d, indent) ==
    LET v == validate_path(c, [abs |-> TRUE, segs |-> Segs(d)])
    IN  IF ~v.ok
        THEN [raised |-> FALSE, entries |-> <<ErrorEntry(d, v.msg)>>]
        ELSE IF ListFails(c, d)
        THEN [raised |-> FALSE, entries |-> <<ErrorEntry(d, ListErrMsg(d))>>]
        ELSE StructItems(c, d, ReadDir(c, d), 1, indent)

\* the loop  for index, item in enumerate(items)  from position i on
StructItems(c, d, items, i, indent) ==
    IF i > Len(items) THEN [raised |-> FALSE, entries |-> <<>>]
    ELSE
    LET item == items[i]
        is_last == (i - 1 = Len(items) - 1)
        rest == StructItems(c, d, items, i + 1, indent)
        here ==
            IF NodeName[item] \in c.exclude_folders
            THEN [raised |-> FALSE, entries |-> <<>>]
            ELSE IF item \in DirNodes
            THEN IF c.filter_folder # <<>> /\ ~IsSubstr(c.filter_folder, NodeName[item])
                 THEN [raised |-> FALSE, entries |-> <<>>]
                 ELSE LET sub == get_structure(c, item, indent + 4)
                          ent == [kind |-> "dir", node |-> item, depth |-> indent \div 4,
                                  last |-> is_last, size |-> get_folder_size(c, item), msg |-> <<>>]
                      IN  [raised |-> sub.raised, entries |-> AppendDir(ent, sub.entries)]
            ELSE IF Lower(SplitExt(NodeName[item])) \in c.exclude_extensions
            THEN [raised |-> FALSE, entries |-> <<>>]
            ELSE IF FaultOf(c, item) \in {"broken", "statS"}
            THEN [raised |-> TRUE, entries |-> <<>>]
            ELSE [raised |-> FALSE,
                  entries |-> <<[kind |-> "file", node |-> item, depth |-> indent \div 4,
                                 last |-> is_last, size |-> FileSize(c, item), msg |-> <<>>]>>]
    IN  IF here.raised THEN [raised |-> TRUE, entries |-> <<>>]
        ELSE IF rest.raised THEN [raised |-> TRUE, entries |-> <<>>]
        ELSE [raised |-> FALSE, entries |-> here.entries \o rest.entries]

\* the text one entry adds to the structure string
RenderEntry(e) ==
    IF e.kind = "error"
    THEN Str_ErrList \o NodePathStr(e.node) \o <<":", " ">> \o e.msg \o <<"\n">>
    ELSE Repeat(" ", 4 * e.depth)
         \o (IF e.last THEN <<"L", "-", "-", " ">> ELSE <<"|", "-", "-", " ">>)  \* the tree glyphs, in ASCII
         \o (IF e.kind = "dir" THEN <<"[","D","I","R","]"," ">> ELSE <<"[","F","I","L","E","]"," ">>)
         \o NodeName[e.node] \o <<" ", "(">> \o format_size(e.size) \o <<")", "\n">>

RenderStructure(entries) == Concat([i \in 1..Len(entries) |-> RenderEntry(entries[i])])

(***************************************************************************)
(* get_file_contents: building file_list                                   *)
(***************************************************************************)
\* the directories os.walk yields, top-down; a directory that cannot be
\* listed is skipped silently
RECURSIVE os_walk(_, _)
RECURSIVE WalkEach(_, _)
os_walk(c, d) ==
    IF ListFails(c, d) THEN <<>>
    ELSE <<d>> \o WalkEach(c, SelectSeq(ReadDir(c, d), LAMBDA n : n \in DirNodes))
WalkEach(c, ds) == IF ds = <<>> THEN <<>> ELSE os_walk(c, Head(ds)) \o WalkEach(c, Tail(ds))

\* the files os.walk reports for a directory
WalkFiles(c, d) == SelectSeq(ReadDir(c, d), LAMBDA n : n \in FileNodes /\ FaultOf(c, n) # "statS")

\* os.path.normpath(root).split(os.sep) of an absolute path
PathParts(d) == << <<>> >> \o Segs(d)

\* the two tests that make the loop skip a whole directory
DirSkipped(c, d) ==
    \/ \E i \in 1..Len(PathParts(d)) : PathParts(d)[i] \in c.exclude_folders
    \/ c.filter_folder # <<>> /\ ~IsSubstr(c.filter_folder, NodePathStr(d))

\* the files the inner loop visits, in order
RECURSIVE Candidates(_, _)
Candidates(c, ds) ==
    IF ds = <<>> THEN <<>>
    ELSE (IF DirSkipped(c, Head(ds)) THEN <<>> ELSE WalkFiles(c, Head(ds))) \o Candidates(c, Tail(ds))

\* the value of modified_after when no date is given
NoDate == -1

\* the inner loop with  file_mtime <= modified_after  as its date test
FileStepLe(c, n) ==
    IF Lower(SplitExt(NodeName[n])) \in c.exclude_extensions THEN "skip"
    ELSE IF c.selected.active /\ RelPathStr(n) \notin c.selected.paths THEN "skip"
    ELSE IF c.min_size > 0 /\ StatFailsC(c, n) THEN "raise"
    ELSE IF c.min_size > 0 /\ FileSize(c, n) < c.min_size THEN "skip"
    ELSE IF c.modified_after # NoDate /\ StatFailsC(c, n) THEN "raise"
    ELSE IF c.modified_after # NoDate /\ NodeMtime[n] <= c.modified_after THEN "skip"
    ELSE "take"

\* what the body of the inner loop does with one file
FileStep(c, n) ==
    IF Lower(SplitExt(NodeName[n])) \in c.exclude_extensions THEN "skip"
    ELSE IF c.selected.active /\ RelPathStr(n) \notin c.selected.paths THEN "skip"
    ELSE IF c.min_size > 0 /\ StatFailsC(c, n) THEN "raise"
    ELSE IF c.min_size > 0 /\ FileSize(c, n) < c.min_size THEN "skip"
    ELSE IF c.modified_after # NoDate /\ StatFailsC(c, n) THEN "raise"
    ELSE IF c.modified_after # NoDate /\ NodeMtime[n] < c.modified_after THEN "skip"
    ELSE "take"

\* file_list, or the exception that ends the try block
RECURSIVE CollectFrom(_, _)
CollectFrom(c, fs) ==
    IF fs = <<>> THEN [raised |-> FALSE, files |-> <<>>, msg |-> <<>>]
    ELSE LET step == FileStep(c, Head(fs))
             rest == CollectFrom(c, Tail(fs))
         IN  IF step = "raise" THEN [raised |-> TRUE, files |-> <<>>, msg |-> StatErrMsg(Head(fs))]
             ELSE IF rest.raised THEN rest
             ELSE [raised |-> FALSE,
                   files |-> (IF step = "take" THEN <<Head(fs)>> ELSE <<>>) \o rest.files,
                   msg |-> <<>>]

build_file_list(c) ==
    LET v == validate_path(c, [abs |-> TRUE, segs |-> Segs(RootNode)])
    IN  IF ~v.ok THEN [raised |-> TRUE, files |-> <<>>, msg |-> v.msg]
        ELSE CollectFrom(c, Candidates(c, os_walk(c, RootNode)))

(***************************************************************************)
(* is_binary_file, check_sensitive_content, minify_content, read_file      *)
(***************************************************************************)
\* is_binary_file(file_path): any exception while the sample is read, a
\* detector confidence below 0.9 or no detected encoding give True
is_binary_file(c, n) ==
    \/ FaultOf(c, n) \in {"broken", "statC", "noopen"}
    \/ FaultOf(c, n) \in {"lowconf", "noenc"}

Quotes == {"'", "\""}

\* the first position from i on that holds no whitespace (Len(s) + 1 if none)
RECURSIVE SkipWs(_, _)
SkipWs(s, i) == IF i <= Len(s) /\ s[i] \in Whitespace THEN SkipWs(s, i + 1) ELSE i

\* the first position from i on that holds no character of the class
RECURSIVE SkipClass(_, _, _)
SkipClass(s, i, word) ==
    IF i <= Len(s) /\ (IF word THEN s[i] \in (UpperSet \cup {LOWER[k] : k \in 1..26} \cup {DIGITS[k] : k \in 1..10} \cup {"_", "-"}) ELSE s[i] \notin Quotes)
    THEN SkipClass(s, i + 1, word) ELSE i

\* the pattern  key\s*=\s*['"]class+['"]  matches at position i, ignoring
\* case; class is [A-Za-z0-9_-] when word, [^'"] otherwise
MatchAssignAt(s, i, key, word) ==
    /\ i + Len(key) - 1 <= Len(s)
    /\ Lower(SubSeq(s, i, i + Len(key) - 1)) = key
    /\ LET j == SkipWs(s, i + Len(key))
       IN  /\ j <= Len(s) /\ s[j] = "="
           /\ LET k == SkipWs(s, j + 1)
              IN  /\ k <= Len(s) /\ s[k] \in Quotes
                  /\ LET m == SkipClass(s, k + 1, word)
                     IN  m > k + 1 /\ m <= Len(s) /\ s[m] \in Quotes

\* sensitive_patterns, in order
SensitivePatterns ==
    << [key |-> <<"a","p","i","_","k","e","y">>, word |-> TRUE], [key |-> <<"s","e","c","r","e","t","_","k","e","y">>, word |-> TRUE],
       [key |-> <<"p","a","s","s","w","o","r","d">>, word |-> FALSE], [key |-> <<"t","o","k","e","n">>, word |-> TRUE] >>

\* check_sensitive_content(content)
check_sensitive_content(content) ==
    \E p \in 1..Len(SensitivePatterns) : \E i \in 1..Len(content) :
        MatchAssignAt(content, i, SensitivePatterns[p].key, SensitivePatterns[p].word)

\* content.split('\n')
RECURSIVE SplitLines(_)
SplitLines(s) ==
    LET nl == {i \in 1..Len(s) : s[i] = "\n"}
    IN  IF nl = {} THEN <<s>>
        ELSE LET i == CHOOSE x \in nl : \A y \in nl : x <= y
             IN  <<SubSeq(s, 1, i - 1)>> \o SplitLines(SubSeq(s, i + 1, Len(s)))

\* '\n'.join(lines)
RECURSIVE JoinLines(_)
JoinLines(ls) ==
    IF ls = <<>> THEN <<>>
    ELSE IF Len(ls) = 1 THEN ls[1]
    ELSE ls[1] \o <<"\n">> \o JoinLines(Tail(ls))

\* line.strip()
RECURSIVE StripLeft(_)
StripLeft(s) == IF s # <<>> /\ Head(s) \in Whitespace THEN StripLeft(Tail(s)) ELSE s
Strip(s) == Reverse(StripLeft(Reverse(StripLeft(s))))

\* the loop over the lines of a .py file, from a given in_docstring state
RECURSIVE PyLines(_, _)
\* the loop without in_docstring: '#' lines are dropped inside docstrings too
PyLinesNoDocstring(ls, in_docstring) ==
    SelectSeq(ls, LAMBDA line : Strip(line) # <<>> /\ Head(Strip(line)) # "#")

PyLines(ls, in_docstring) ==
    IF ls = <<>> THEN <<>>
    ELSE LET line == Head(ls)
             stripped == Strip(line)
         IN  IF IsSubstr(<<"\"", "\"", "\"">>, stripped) \/ IsSubstr(<<"'", "'", "'">>, stripped)
             THEN <<line>> \o PyLines(Tail(ls), ~in_docstring)
             ELSE IF ~in_docstring /\ stripped # <<>> /\ Head(stripped) = "#"
             THEN PyLines(Tail(ls), in_docstring)
             ELSE IF stripped # <<>>
             THEN <<line>> \o PyLines(Tail(ls), in_docstring)
             ELSE PyLines(Tail(ls), in_docstring)

IsPrefix(p, s) == Len(p) <= Len(s) /\ SubSeq(s, 1, Len(p)) = p

\* re.sub(r'//.*?$', '', content, flags=re.MULTILINE)
RECURSIVE CutLineComment(_)
CutLineComment(line) ==
    IF line = <<>> THEN <<>>
    ELSE IF IsPrefix(<<"/", "/">>, line) THEN <<>>
    ELSE <<Head(line)>> \o CutLineComment(Tail(line))
StripLineComments(s) ==
    LET ls == SplitLines(s)
    IN  JoinLines([i \in 1..Len(ls) |-> CutLineComment(ls[i])])

\* re.sub(open + '.*?' + close, '', content, flags=re.DOTALL)
RECURSIVE StripBetween(_, _, _)
StripBetween(s, open, close) ==
    IF s = <<>> THEN <<>>
    ELSE LET ends == {e \in (Len(open) + Len(close))..Len(s) :
                        SubSeq(s, e - Len(close) + 1, e) = close}
         IN  IF IsPrefix(open, s) /\ ends # {}
             THEN StripBetween(SubSeq(s, (CHOOSE e \in ends : \A y \in ends : e <= y) + 1, Len(s)),
                               open, close)
             ELSE <<Head(s)>> \o StripBetween(Tail(s), open, close)

\* the length of the longest prefix made of whitespace
RECURSIVE WsRun(_)
WsRun(s) == IF s # <<>> /\ Head(s) \in Whitespace THEN 1 + WsRun(Tail(s)) ELSE 0

\* re.sub(r'\n\s*\n', '\n\n', content)
RECURSIVE CollapseBlank(_)
CollapseBlank(s) ==
    IF s = <<>> THEN <<>>
    ELSE IF Head(s) = "\n"
    THEN LET t == Tail(s)
             nl == {m \in 1..WsRun(t) : t[m] = "\n"}
         IN  IF nl # {}
             THEN <<"\n", "\n">> \o CollapseBlank(SubSeq(t, SetMax(nl) + 1, Len(t)))
             ELSE <<"\n">> \o CollapseBlank(t)
    ELSE <<Head(s)>> \o CollapseBlank(Tail(s))

ExtSet(names) == {<<".">> \o names[i] : i \in 1..Len(names)}

\* minify_content without the substitution that follows the rule families
minify_content_families_only(content, file_ext) ==
    IF content = <<>> THEN content
    ELSE LET stripped ==
                 IF file_ext = <<".", "p", "y">>
                 THEN JoinLines(PyLines(SplitLines(content), FALSE))
                 ELSE IF file_ext \in ExtSet(<< <<"j", "s">>, <<"t", "s">>, <<"j", "s", "x">>, <<"t", "s", "x">>, <<"j", "a", "v", "a">>, <<"c", "s">>, <<"g", "o">>, <<"p", "h", "p">> >>)
                 THEN StripBetween(StripLineComments(content), <<"/", "*">>, <<"*", "/">>)
                 ELSE IF file_ext \in ExtSet(<< <<"h", "t", "m", "l">>, <<"x", "m", "l">> >>)
                 THEN StripBetween(content, <<"<", "!", "-", "-">>, <<"-", "-", ">">>)
                 ELSE IF file_ext \in ExtSet(<< <<"c", "s", "s">>, <<"s", "c", "s", "s">> >>)
                 THEN StripBetween(content, <<"/", "*">>, <<"*", "/">>)
                 ELSE content
         IN  stripped

\* minify_content(content, file_ext)
minify_content(content, file_ext) ==
    IF content = <<>> THEN content
    ELSE LET stripped ==
                 IF file_ext = <<".", "p", "y">>
                 THEN JoinLines(PyLines(SplitLines(content), FALSE))
                 ELSE IF file_ext \in ExtSet(<< <<"j", "s">>, <<"t", "s">>, <<"j", "s", "x">>, <<"t", "s", "x">>, <<"j", "a", "v", "a">>, <<"c", "s">>, <<"g", "o">>, <<"p", "h", "p">> >>)
                 THEN StripBetween(StripLineComments(content), <<"/", "*">>, <<"*", "/">>)
                 ELSE IF file_ext \in ExtSet(<< <<"h", "t", "m", "l">>, <<"x", "m", "l">> >>)
                 THEN StripBetween(content, <<"<", "!", "-", "-">>, <<"-", "-", ">">>)
                 ELSE IF file_ext \in ExtSet(<< <<"c", "s", "s">>, <<"s", "c", "s", "s">> >>)
                 THEN StripBetween(content, <<"/", "*">>, <<"*", "/">>)
                 ELSE content
         IN  CollapseBlank(stripped)

\* a regex of the form  ^?lit(\s+)?  and re.search(regex, content, re.IGNORECASE)
NoRegex == [anchor |-> FALSE, lit |-> <<>>, ws |-> FALSE]
\* re.search(regex, content) without re.IGNORECASE
RegexSearchCase(r, s) ==
    \E i \in 1..(IF r.anchor THEN 1 ELSE Len(s) + 1) :
        /\ i + Len(r.lit) - 1 <= Len(s)
        /\ SubSeq(s, i, i + Len(r.lit) - 1) = r.lit
        /\ r.ws => (i + Len(r.lit) <= Len(s) /\ s[i + Len(r.lit)] \in Whitespace)

\* re.search(regex, content, re.IGNORECASE)
RegexSearch(r, s) ==
    \E i \in 1..(IF r.anchor THEN 1 ELSE Len(s) + 1) :
        /\ i + Len(r.lit) - 1 <= Len(s)
        /\ Lower(SubSeq(s, i, i + Len(r.lit) - 1)) = Lower(r.lit)
        /\ r.ws => (i + Len(r.lit) <= Len(s) /\ s[i + Len(r.lit)] \in Whitespace)

\* the block of a file that was read, and of a file whose read failed
Block(n, content) ==
    <<"\n">> \o Repeat("-", SepWidth) \o <<"\n">> \o Str_File \o NodePathStr(n) \o <<"\n">>
    \o Repeat("-", SepWidth) \o <<"\n">> \o content \o <<"\n">>
ErrBlock(n, e) == <<"\n">> \o Str_ErrRead \o NodePathStr(n) \o <<":", " ">> \o e \o <<"\n">>

None == [kind |-> "none", text |-> <<>>]

\* minification applied to the text that was read instead of the marker
ShownContentLeak(c, n) ==
    LET content == FileText(c, n)
        masked == IF check_sensitive_content(content) THEN MASKED ELSE content
    IN  IF c.minify
        THEN minify_content(content, Lower(SplitExt(NodeName[n])))
        ELSE masked

\* the content of a file after masking and minification
ShownContent(c, n) ==
    LET content == FileText(c, n)
        masked == IF check_sensitive_content(content) THEN MASKED ELSE content
    IN  IF c.minify /\ masked # MASKED
        THEN minify_content(masked, Lower(SplitExt(NodeName[n])))
        ELSE masked

\* read_file that reads the whole file before it asks is_binary_file
FullReadFirst(c, n) == FaultOf(c, n) \notin {"broken", "statC", "noopen"}

\* read_file reaches  raw_data = f.read()  and the read is done
FullRead(c, n) == ~is_binary_file(c, n) /\ FaultOf(c, n) # "noread"

\* read_file with  except Exception: return None
read_file_swallow(c, n) ==
    IF is_binary_file(c, n) THEN None
    ELSE IF FaultOf(c, n) \in {"noread", "badcodec"} THEN None
    ELSE LET content == ShownContent(c, n)
         IN  IF c.keyword # <<>> /\ ~IsSubstr(Lower(c.keyword), Lower(content)) THEN None
             ELSE IF c.regex # NoRegex /\ ~RegexSearch(c.regex, content) THEN None
             ELSE [kind |-> "block", text |-> Block(n, content)]

\* read_file(file_path, keyword, regex, minify)
read_file(c, n) ==
    IF is_binary_file(c, n) THEN None
    ELSE IF FaultOf(c, n) = "noread" THEN [kind |-> "error", text |-> ErrBlock(n, Err_EIO)]
    ELSE IF FaultOf(c, n) = "badcodec" THEN [kind |-> "error", text |-> ErrBlock(n, Err_Codec \o <<"x">>)]
    ELSE LET content == ShownContent(c, n)
         IN  IF c.keyword # <<>> /\ ~IsSubstr(Lower(c.keyword), Lower(content)) THEN None
             ELSE IF c.regex # NoRegex /\ ~RegexSearch(c.regex, content) THEN None
             ELSE [kind |-> "block", text |-> Block(n, content)]

(***************************************************************************)
(* format_output                                                           *)
(***************************************************************************)
\* json.dumps that leaves control characters as they are
JsonEscapeCharRaw(ch) ==
    CASE ch = "\"" -> <<"\\", "\"">>
      [] ch = "\\" -> <<"\\", "\\">>
      [] OTHER -> <<ch>>

\* the escapes json.dumps(..., ensure_ascii=False) applies inside a string
JsonEscapeChar(ch) ==
    CASE ch = "\"" -> <<"\\", "\"">>
      [] ch = "\\" -> <<"\\", "\\">>
      [] ch = "\n" -> <<"\\", "n">>
      [] ch = "\t" -> <<"\\", "t">>
      [] OTHER -> <<ch>>
JsonString(s) == <<"\"">> \o Concat([i \in 1..Len(s) |-> JsonEscapeChar(s[i])]) \o <<"\"">>

\* one  "key": "value"  member at indent 2
JsonMember(key, value) == <<" ", " ">> \o JsonString(key) \o <<":", " ">> \o JsonString(value)

\* markdown2.markdown(text): the rendering of the library, kept opaque
markdown2(text) == <<"<md2>">> \o text \o <<"</md2>">>

\* the Markdown document of the md and html formats
MdDocument(structure, contents) ==
    <<"#", " ">> \o <<"P","r","o","j","e","c","t"," ","S","t","r","u","c","t","u","r","e">> \o <<"\n", "\n">> \o <<BQ,BQ,BQ,"t","r","e","e">> \o <<"\n">>
    \o structure \o <<"\n">> \o Str_Fence \o <<"\n", "\n">>
    \o <<"#", " ">> \o Str_FileContents \o <<"\n", "\n">> \o <<BQ,BQ,BQ,"t","e","x","t">> \o <<"\n">>
    \o contents \o <<"\n">> \o Str_Fence

\* format_output that renders the template together with the document
format_output_render_all(structure, contents, output_format, prompt_template) ==
    LET final_output == IF prompt_template # <<>> THEN prompt_template \o <<"\n", "\n">> ELSE <<>>
    IN  IF output_format = "json"
        THEN <<"{", "\n">> \o JsonMember(<<"p","r","o","m","p","t">>, prompt_template) \o <<",", "\n">>
             \o JsonMember(<<"f","o","l","d","e","r","_","s","t","r","u","c","t","u","r","e">>, structure) \o <<",", "\n">>
             \o JsonMember(<<"f","i","l","e","_","c","o","n","t","e","n","t","s">>, contents) \o <<"\n", "}">>
        ELSE IF output_format = "html"
        THEN markdown2(final_output \o MdDocument(structure, contents))
        ELSE IF output_format = "md"
        THEN final_output \o MdDocument(structure, contents)
        ELSE final_output \o Str_FolderStructure \o <<":", "\n">> \o structure \o <<"\n", "\n">>
             \o Str_FileContents \o <<":">> \o contents

\* format_output(structure, contents, output_format, prompt_template)
format_output(structure, contents, output_format, prompt_template) ==
    LET final_output == IF prompt_template # <<>> THEN prompt_template \o <<"\n", "\n">> ELSE <<>>
    IN  IF output_format = "json"
        THEN <<"{", "\n">> \o JsonMember(<<"p","r","o","m","p","t">>, prompt_template) \o <<",", "\n">>
             \o JsonMember(<<"f","o","l","d","e","r","_","s","t","r","u","c","t","u","r","e">>, structure) \o <<",", "\n">>
             \o JsonMember(<<"f","i","l","e","_","c","o","n","t","e","n","t","s">>, contents) \o <<"\n", "}">>
        ELSE IF output_format = "md"
        THEN final_output \o MdDocument(structure, contents)
        ELSE IF output_format = "html"
        THEN final_output \o markdown2(MdDocument(structure, contents))
        ELSE final_output \o Str_FolderStructure \o <<":", "\n">> \o structure \o <<"\n", "\n">>
             \o Str_FileContents \o <<":">> \o contents

\* utils/ui_utils.py format_output(structure, contents, output_format): the
\* variant the window mode calls, which takes no prompt template
ui_format_output(structure, contents, output_format) ==
    IF output_format = "json"
    THEN <<"{", "\n">>
         \o JsonMember(<<"f","o","l","d","e","r","_","s","t","r","u","c","t","u","r","e">>, structure) \o <<",", "\n">>
         \o JsonMember(<<"f","i","l","e","_","c","o","n","t","e","n","t","s">>, contents) \o <<"\n", "}">>
    ELSE IF output_format = "md"
    THEN MdDocument(structure, contents)
    ELSE IF output_format = "html"
    THEN markdown2(MdDocument(structure, contents))
    ELSE Str_FolderStructure \o <<":", "\n">> \o structure \o <<"\n", "\n">>
         \o Str_FileContents \o <<":">> \o contents

(***************************************************************************)
(* The inputs of a run                                                     *)
(***************************************************************************)
NoFault == [node |-> 0, kind |-> "none"]
NoSelection == [active |-> FALSE, paths |-> {}]
Prompt_x == <<"Q", ":">>

Base ==
    [rootKind |-> "dir", rootAbs |-> TRUE, order |-> "fwd",
     exclude_folders |-> {}, exclude_extensions |-> {}, filter_folder |-> <<>>,
     keyword |-> <<>>, regex |-> NoRegex, min_size |-> 0, modified_after |-> NoDate,
     selected |-> NoSelection, minify |-> FALSE, output_format |-> "txt", prompt |-> <<>>,
     secret |-> 1, fault |-> NoFault, dirFault |-> NoFault, save_ok |-> TRUE]

\* the smallest size and the date used as thresholds
MinSizeOpt == 7
DateOpt == 2


\* every combination of the filters of get_structure and get_file_contents
FilterConfigs ==
    {[Base EXCEPT !.exclude_folders = xf, !.exclude_extensions = xe, !.filter_folder = ff,
                  !.min_size = ms, !.modified_after = ma, !.selected = sel] :
        xf \in {{}, {N_out}, {N_lib}, {N_w}, {<<>>}}, xe \in {{}, {<<".","l","o","g">>}, {Ext_py, <<"l", "o", "g">>}}, ff \in {<<>>, N_src, <<"l","i">>},
        ms \in {0, MinSizeOpt}, ma \in {NoDate, DateOpt}, sel \in ({NoSelection, [active |-> TRUE, paths |-> {}], [active |-> TRUE, paths |-> {RelPathStr(3), RelPathStr(8)}]})}


\* every combination of the content filters, with one file at most failing
ReadConfigs ==
    {[Base EXCEPT !.keyword = kw, !.regex = rx, !.minify = mf, !.secret = sv, !.fault = ft] :
        kw \in {<<>>, Kw_import, Kw_masked, <<"c">>}, rx \in {NoRegex, [anchor |-> TRUE, lit |-> Lower(Kw_import), ws |-> TRUE]},
        mf \in BOOLEAN, sv \in {1, 2}, ft \in ({NoFault} \cup {[node |-> n, kind |-> k] : n \in {3, 5}, k \in {"noopen", "noread", "badcodec", "lowconf", "noenc"}})}


\* one file that cannot be stat'ed, or one directory that cannot be listed
FaultConfigs ==
    {[Base EXCEPT !.fault = ft, !.min_size = ms, !.modified_after = ma, !.exclude_extensions = xe] :
        ft \in ({[node |-> n, kind |-> k] : n \in FileNodes, k \in {"broken", "statS", "statC"}}), ms \in {0, MinSizeOpt}, ma \in {NoDate, DateOpt},
        xe \in {{}, {Ext_py}}}
    \cup {[Base EXCEPT !.dirFault = df, !.order = o] : df \in ({[node |-> d, kind |-> "eacces"] : d \in DirNodes} \cup {[node |-> d, kind |-> "gone"] : d \in DirNodes \ {RootNode}}), o \in {"fwd", "rev"}}

\* the root given as a directory, a regular file or a missing path
RootConfigs ==
    {[Base EXCEPT !.rootKind = rk, !.rootAbs = ra, !.order = o] :
        rk \in {"dir", "file", "missing"}, ra \in BOOLEAN, o \in {"fwd", "rev"}}

\* every output format, with the output directory writable or not
FormatConfigs ==
    {[Base EXCEPT !.output_format = f, !.prompt = pt, !.save_ok = ok,
                  !.exclude_folders = xf, !.keyword = kw] :
        f \in {"txt", "json", "md", "html"},
        pt \in {<<>>, Prompt_x, <<"a", "\"", "\\", "n", "\n", "b">>},
        ok \in BOOLEAN, xf \in {{}, {N_out}}, kw \in {<<>>, Kw_masked}}

Configs == FilterConfigs \cup ReadConfigs \cup FaultConfigs \cup RootConfigs \cup FormatConfigs

(***************************************************************************)
(* The state of main                                                       *)
(***************************************************************************)
VARIABLES
    cfg,          \* the file system and the arguments of the runs
    pc,           \* where main is
    run,          \* the number of the current run
    folder_path,  \* the validated root, <<>> before validation
    err,          \* why the run ended with exit(1)
    structure,    \* the entries get_structure returned
    file_list,    \* the files handed to the thread pool
    task,         \* the state of each submitted task
    slot,         \* the result of each finished task
    results,      \* what the result iterator has yielded so far
    contents,     \* what get_file_contents returned
    output,       \* what format_output returned
    saved,        \* TRUE when save_and_open has written the output
    prev,         \* how the earlier runs ended
    listed,       \* the directories listed during this run
    opened,       \* the files opened during this run
    fullread,     \* the files whose whole bytes were read during this run
    mini,         \* one call of minify_content: its arguments and its result
    life,         \* what one process has left on disk, and where it stands
    wiz,          \* the step-by-step dialogue of utils/ui_utils.py
    menu,         \* one call of select_from_list
    browser,      \* one call of interactive_file_browser
    dialog        \* the menus of interactive_mode of main.py

\* the state of a run of main in command-line mode
mainVars == <<cfg, pc, run, folder_path, err, structure, file_list, task, slot, results,
              contents, output, saved, prev, listed, opened, fullread>>

\* the state of the functions that are followed on their own
sideVars == <<mini, life, wiz, menu, browser, dialog>>

vars == <<mainVars, sideVars>>

poolVars == <<file_list, task, slot, results>>

SeqRange(s) == {s[i] : i \in 1..Len(s)}

Fresh ==
    /\ pc = "start"
    /\ folder_path = <<>>
    /\ err = "none"
    /\ structure = <<>>
    /\ file_list = <<>>
    /\ task = <<>>
    /\ slot = <<>>
    /\ results = <<>>
    /\ contents = <<>>
    /\ output = <<>>
    /\ saved = FALSE
    /\ listed = {}
    /\ opened = {}
    /\ fullread = {}

\* every function followed on its own is at rest, but the one named
Idle(on) ==
    /\ IF on = "mini" THEN TRUE ELSE mini = [pc |-> "off", content |-> <<>>, file_ext |-> <<>>, result |-> <<>>]
    /\ IF on = "life" THEN TRUE ELSE life = [pc |-> "off"]
    /\ IF on = "wiz" THEN TRUE ELSE wiz = [pc |-> "off"]
    /\ IF on = "menu" THEN TRUE ELSE menu = [pc |-> "off"]
    /\ IF on = "browser" THEN TRUE ELSE browser = [pc |-> "off"]
    /\ IF on = "dialog" THEN TRUE ELSE dialog = [pc |-> "off"]

Init ==
    /\ cfg \in Configs
    /\ run = 1
    /\ prev = <<>>
    /\ Fresh
    /\ Idle("main")

(***************************************************************************)
(* main in command-line mode, one action per step                          *)
(***************************************************************************)
\* main: validate_path(args.custom[0]) and detect_project_type_advanced; a
\* ValueError ends the run with exit(1)
ValidateRoot ==
    /\ pc = "start"
    /\ LET v == validate_path(cfg, InputPath(cfg))
       IN  IF v.ok
           THEN /\ folder_path' = v.path
                /\ pc' = "validated"
                /\ err' = err
                /\ listed' = {RootNode} \cup SeqRange(os_walk(cfg, RootNode))
           ELSE /\ folder_path' = folder_path
                /\ pc' = "exit1"
                /\ err' = v.err
                /\ listed' = listed
    /\ UNCHANGED <<cfg, run, structure, poolVars, contents, output, saved, prev, opened, fullread, sideVars>>

\* main: structure = get_structure(folder_path, ...); an exception that
\* leaves get_structure ends the run with exit(1)
GetStructure ==
    /\ pc = "validated"
    /\ LET r == get_structure(cfg, RootNode, 0)
       IN  IF r.raised
           THEN /\ pc' = "exit1"
                /\ err' = "unexpected"
                /\ structure' = structure
                /\ listed' = listed \cup {RootNode}
           ELSE /\ pc' = "structured"
                /\ err' = err
                /\ structure' = r.entries
                /\ listed' = listed \cup {RootNode} \cup {r.entries[i].node : i \in {j \in 1..Len(r.entries) : r.entries[j].kind # "file"}}
    /\ UNCHANGED <<cfg, run, folder_path, poolVars, contents, output, saved, prev, opened, fullread, sideVars>>

\* get_file_contents: the walk that builds file_list, then executor.map
\* submits one task per file; an exception in the walk returns an error text
BuildFileList ==
    /\ pc = "structured"
    /\ LET r == build_file_list(cfg)
       IN  IF r.raised
           THEN /\ pc' = "joined"
                /\ contents' = Str_ErrProc \o PathStr(folder_path) \o <<":", " ">> \o r.msg \o <<"\n">>
                /\ file_list' = <<>>
                /\ task' = <<>>
                /\ slot' = <<>>
           ELSE /\ pc' = "pool"
                /\ contents' = contents
                /\ file_list' = r.files
                /\ task' = [i \in 1..Len(r.files) |-> "queued"]
                /\ slot' = [i \in 1..Len(r.files) |-> None]
    /\ listed' = listed \cup {RootNode} \cup SeqRange(os_walk(cfg, RootNode))
    /\ UNCHANGED <<cfg, run, folder_path, err, structure, results, output, saved, prev, opened, fullread, sideVars>>

Running == {i \in DOMAIN task : task[i] = "running"}
Queued == {i \in DOMAIN task : task[i] = "queued"}

\* a pool that starts one thread for each submitted task
WorkerStartUnbounded ==
    /\ pc = "pool"
    /\ Queued # {}
    /\ LET i == CHOOSE x \in Queued : \A y \in Queued : x <= y
       IN  task' = [task EXCEPT ![i] = "running"]
    /\ UNCHANGED <<cfg, pc, run, folder_path, err, structure, file_list, slot, results,
                   contents, output, saved, prev, listed, opened, fullread, sideVars>>

\* a worker thread takes the oldest queued task
WorkerStart ==
    /\ pc = "pool"
    /\ Queued # {}
    /\ Cardinality(Running) < MaxWorkers
    /\ LET i == CHOOSE x \in Queued : \A y \in Queued : x <= y
       IN  task' = [task EXCEPT ![i] = "running"]
    /\ UNCHANGED <<cfg, pc, run, folder_path, err, structure, file_list, slot, results,
                   contents, output, saved, prev, listed, opened, fullread, sideVars>>

\* the result appended in the order in which the tasks complete
StoreResultByCompletion(slots, i, r) ==
    [slots EXCEPT ![Cardinality({j \in DOMAIN task : task[j] = "done"}) + 1] = r]

\* where the result of task i is stored when it completes
StoreResult(slots, i, r) == [slots EXCEPT ![i] = r]

\* a worker thread finishes read_file on its file
WorkerFinish(i) ==
    /\ pc = "pool"
    /\ i \in Running
    /\ task' = [task EXCEPT ![i] = "done"]
    /\ slot' = StoreResult(slot, i, read_file(cfg, file_list[i]))
    /\ opened' = opened \cup {file_list[i]}
    /\ fullread' = fullread \cup (IF FullRead(cfg, file_list[i]) THEN {file_list[i]} ELSE {})
    /\ UNCHANGED <<cfg, pc, run, folder_path, err, structure, file_list, results,
                   contents, output, saved, prev, listed, sideVars>>

\* results taken as the tasks complete, whatever their position
NextYieldAny(t, yielded) ==
    IF Len(yielded) < Len(t)
    THEN {i \in DOMAIN t : t[i] = "done" /\ slot[i] \notin SeqRange(yielded)}
    ELSE {}

\* the index whose result the iterator of executor.map yields next
NextYield(t, yielded) ==
    IF Len(yielded) < Len(t) /\ t[Len(yielded) + 1] = "done" THEN {Len(yielded) + 1} ELSE {}

\* list(...) takes the next result of executor.map, waiting until it is there
YieldResult ==
    /\ pc = "pool"
    /\ \E i \in NextYield(task, results) : results' = Append(results, slot[i])
    /\ UNCHANGED <<cfg, pc, run, folder_path, err, structure, file_list, task, slot,
                   contents, output, saved, prev, listed, opened, fullread, sideVars>>

\* "".join([r for r in results if r])
JoinTexts(rs) ==
    Concat([i \in 1..Len(rs) |-> IF rs[i].kind # "none" THEN rs[i].text ELSE <<>>])

\* get_file_contents returning what was collected so far, without waiting
JoinResultsEarly ==
    /\ pc = "pool"
    /\ contents' = JoinTexts(results)
    /\ pc' = "joined"
    /\ UNCHANGED <<cfg, run, folder_path, err, structure, poolVars, output, saved, prev,
                   listed, opened, fullread, sideVars>>

\* the pool is shut down and get_file_contents returns the joined results
JoinResults ==
    /\ pc = "pool"
    /\ Len(results) = Len(file_list)
    /\ Running = {} /\ Queued = {}
    /\ contents' = JoinTexts(results)
    /\ pc' = "joined"
    /\ UNCHANGED <<cfg, run, folder_path, err, structure, poolVars, output, saved, prev,
                   listed, opened, fullread, sideVars>>

\* main: output = format_output(structure, contents, output_format, prompt_template)
FormatOutput ==
    /\ pc = "joined"
    /\ output' = format_output(RenderStructure(structure), contents, cfg.output_format, cfg.prompt)
    /\ pc' = "formatted"
    /\ UNCHANGED <<cfg, run, folder_path, err, structure, poolVars, contents, saved, prev,
                   listed, opened, fullread, sideVars>>

\* main: save_and_open(output, ...); when the output cannot be written it
\* raises ValueError and the run ends with exit(1)
SaveAndOpen ==
    /\ pc = "formatted"
    /\ IF cfg.save_ok
       THEN saved' = TRUE /\ pc' = "done" /\ err' = err
       ELSE saved' = saved /\ pc' = "exit1" /\ err' = "save"
    /\ UNCHANGED <<cfg, run, folder_path, structure, poolVars, contents, output, prev,
                   listed, opened, fullread, sideVars>>

Ended == pc \in {"done", "exit1"}

\* the program is started again on the same tree with the same arguments
NextRun ==
    /\ Ended
    /\ run < MaxRuns
    /\ run' = run + 1
    /\ prev' = Append(prev, [pc |-> pc, err |-> err, structure |-> structure,
                             file_list |-> file_list, contents |-> contents, output |-> output])
    /\ pc' = "start"
    /\ folder_path' = <<>>
    /\ err' = "none"
    /\ structure' = <<>>
    /\ file_list' = <<>>
    /\ task' = <<>>
    /\ slot' = <<>>
    /\ results' = <<>>
    /\ contents' = <<>>
    /\ output' = <<>>
    /\ saved' = FALSE
    /\ listed' = {}
    /\ opened' = {}
    /\ fullread' = {}
    /\ UNCHANGED <<cfg, sideVars>>

Next ==
    \/ ValidateRoot
    \/ GetStructure
    \/ BuildFileList
    \/ WorkerStart
    \/ \E i \in DOMAIN task : WorkerFinish(i)
    \/ YieldResult
    \/ JoinResults
    \/ FormatOutput
    \/ SaveAndOpen
    \/ NextRun

Spec == Init /\ [][Next]_vars

\* the threads of the pool run, and main runs, until the process exits
(***************************************************************************)
(* minify_content called on its own, on every text of a few lines          *)
(***************************************************************************)
\* the largest number of lines of a text
MaxLines == 6

\* minify_content is given a text of up to MaxLines lines and an extension:
\* lines that are empty, blank, an indented comment, code or a triple quote,
\* with a '#'-comment extension or an extension of no rule family; or, as a
\* Python text, lines with a docstring that opens and closes on one line
MinifyInit ==
    /\ cfg = Base
    /\ run = 1
    /\ prev = <<>>
    /\ Fresh
    /\ Idle("mini")
    /\ \E n \in 0..MaxLines :
           \/ \E ls \in [1..n -> {<<>>, <<" ">>, <<" ", "#", "c">>, <<"x">>, <<"\"", "\"", "\"">>}],
                     e \in {Ext_py, <<".", "t", "x", "t">>} :
                  mini = [pc |-> "given", content |-> JoinLines(ls), file_ext |-> e, result |-> <<>>]
           \/ \E ls \in [1..n -> {<<"\"", "\"", "\"", "d", "\"", "\"", "\"">>, <<" ", "#", "c">>,
                                     <<"x">>, <<"\"", "\"", "\"">>}] :
                  mini = [pc |-> "given", content |-> JoinLines(ls), file_ext |-> Ext_py, result |-> <<>>]

\* content = minify_content(content, file_ext)
Minify ==
    /\ mini.pc = "given"
    /\ mini' = [mini EXCEPT !.pc = "minified",
                            !.result = minify_content(mini.content, mini.file_ext)]
    /\ UNCHANGED <<mainVars, life, wiz, menu, browser, dialog>>

MinifySpec == MinifyInit /\ [][Minify]_vars

(***************************************************************************)
(* What one process leaves on disk                                         *)
(***************************************************************************)
\* the largest number of files save_and_open splits the output into
MaxParts == 3

\* a process is started: by main.py or by the window of utils/ui_utils.py,
\* on a remote repository or on a local root that may hold the working
\* directory and the directory of the script, with an output of 1..MaxParts
\* files
LifeInit ==
    /\ cfg = Base
    /\ run = 1
    /\ prev = <<>>
    /\ Fresh
    /\ Idle("life")
    /\ \E v \in {"main", "ui"}, r \in BOOLEAN, c \in BOOLEAN, d \in BOOLEAN, n \in 1..MaxParts :
           /\ r => ~c /\ ~d
           /\ life = [pc |-> "start", variant |-> v, remote |-> r, cwdInRoot |-> c,
                      scriptInRoot |-> d, parts |-> n, log |-> FALSE, temp |-> FALSE,
                      files |-> <<>>]

\* main: setup_logging(args.log_file) creates output/log.txt under the
\* working directory; the window mode sets up no log file
SetupLogging ==
    /\ life.pc = "start"
    /\ life' = [life EXCEPT !.pc = "logged", !.log = (life.variant = "main")]
    /\ UNCHANGED <<mainVars, mini, wiz, menu, browser, dialog>>

\* clone_remote_repo(url) creates temp_repo under the working directory;
\* validate_path(path) creates nothing
CloneOrValidate ==
    /\ life.pc = "logged"
    /\ life' = [life EXCEPT !.pc = "ready", !.temp = life.remote]
    /\ UNCHANGED <<mainVars, mini, wiz, menu, browser, dialog>>

\* get_structure, get_file_contents and format_output write no file
ProcessProject ==
    /\ life.pc = "ready"
    /\ life' = [life EXCEPT !.pc = "saving"]
    /\ UNCHANGED <<mainVars, mini, wiz, menu, browser, dialog>>

\* save_and_open: open(filepath, 'w') creates the next output file
OpenOutputFile ==
    /\ life.pc = "saving"
    /\ Len(life.files) < life.parts
    /\ life' = [life EXCEPT !.pc = "writing", !.files = Append(@, "open")]
    /\ UNCHANGED <<mainVars, mini, wiz, menu, browser, dialog>>

\* save_and_open: f.write(part) is done and the file is closed
WriteOutputFile ==
    /\ life.pc = "writing"
    /\ life' = [life EXCEPT !.pc = "saving", !.files[Len(life.files)] = "written"]
    /\ UNCHANGED <<mainVars, mini, wiz, menu, browser, dialog>>

\* save_and_open has returned; main in command-line mode removes the
\* clone, the window mode does not
RemoveClone ==
    /\ life.pc = "saving"
    /\ Len(life.files) = life.parts
    /\ life' = [life EXCEPT !.pc = "done",
                            !.temp = IF life.variant = "main" THEN FALSE ELSE @]
    /\ UNCHANGED <<mainVars, mini, wiz, menu, browser, dialog>>

\* Ctrl-C: main prints the warning and calls exit(0); the window mode has
\* no handler and the process ends; nothing is removed
KeyboardInterrupt ==
    /\ life.pc \in {"start", "logged", "ready", "saving", "writing"}
    /\ life' = [life EXCEPT !.pc = "exit0"]
    /\ UNCHANGED <<mainVars, mini, wiz, menu, browser, dialog>>

LifeSpec ==
    LifeInit /\ [][SetupLogging \/ CloneOrValidate \/ ProcessProject \/ OpenOutputFile
                   \/ WriteOutputFile \/ RemoveClone \/ KeyboardInterrupt]_vars

(***************************************************************************)
(* select_from_list: the menu driven by single key presses                 *)
(***************************************************************************)
MaxItems == 3
MaxKeys == 5

\* what getch can return: the arrow names, ENTER (CR or LF), SPACE, q, Q,
\* ESC, and a key no branch handles
Keys == {"UP", "DOWN", "LEFT", "RIGHT", "\r", "\n", " ", "q", "Q", "ESC", "x"}

\* sorted(selected): the positions in increasing order
RECURSIVE sorted(_)
sorted(S) ==
    IF S = {} THEN <<>>
    ELSE LET m == CHOOSE x \in S : \A y \in S : x <= y
         IN  <<m>> \o sorted(S \ {m})

\* SPACE only ever ticks a box
ToggleTickOnly(selected, current) == selected \cup {current}

\* SPACE: selected.remove(current) if current is in, selected.add otherwise
Toggle(selected, current) ==
    IF current \in selected THEN selected \ {current} ELSE selected \cup {current}

MenuInit ==
    /\ cfg = Base /\ run = 1 /\ prev = <<>> /\ Fresh /\ Idle("menu")
    /\ \E n \in 0..MaxItems, m \in BOOLEAN :
           menu = [pc |-> "called", items |-> SubSeq(<<"a", "b", "c", "d", "e">>, 1, n), multi_select |-> m,
                   current |-> 0, selected |-> {}, key |-> "", from |-> 0,
                   spaces |-> [i \in 0..(n - 1) |-> 0], presses |-> 0,
                   ret |-> [kind |-> "none", val |-> <<>>]]

\* the entry of select_from_list: None for an empty list, else the cursor
\* on the first item and nothing selected
SelectStart ==
    /\ menu.pc = "called"
    /\ menu' = [menu EXCEPT !.pc = IF menu.items = <<>> THEN "returned" ELSE "loop"]
    /\ UNCHANGED <<mainVars, mini, life, wiz, browser, dialog>>

\* one turn of the loop: getch, then the branch of the key
SelectKey ==
    /\ menu.pc = "loop" /\ menu.presses < MaxKeys
    /\ \E key \in Keys :
        LET n == Len(menu.items)
            m == [menu EXCEPT !.key = key, !.from = menu.current, !.presses = @ + 1]
        IN  menu' =
              IF key = "UP" THEN [m EXCEPT !.current = (menu.current - 1) % n]
              ELSE IF key = "DOWN" THEN [m EXCEPT !.current = (menu.current + 1) % n]
              ELSE IF key \in {"LEFT", "RIGHT"} /\ menu.multi_select THEN m
              ELSE IF key \in {"\r", "\n"} THEN
                  IF menu.multi_select
                  THEN [m EXCEPT !.pc = "returned",
                                 !.ret = [kind |-> "list",
                                          val |-> [k \in 1..Cardinality(menu.selected) |->
                                                      menu.items[sorted(menu.selected)[k] + 1]]]]
                  ELSE [m EXCEPT !.pc = "returned",
                                 !.ret = [kind |-> "item", val |-> menu.items[menu.current + 1]]]
              ELSE IF key = " " /\ menu.multi_select
                   THEN [m EXCEPT !.selected = Toggle(menu.selected, menu.current),
                                  !.spaces[menu.current] = @ + 1]
              ELSE IF key \in {"q", "Q"} THEN [m EXCEPT !.pc = "returned"]
              ELSE IF key = "ESC" THEN [m EXCEPT !.pc = "returned"]
              ELSE m
    /\ UNCHANGED <<mainVars, mini, life, wiz, browser, dialog>>

MenuSpec == MenuInit /\ [][SelectStart \/ SelectKey]_vars

(***************************************************************************)
(* interactive_file_browser: directory groups, then the files of a group   *)
(***************************************************************************)
\* RIGHT in directory view shows the files but leaves the file cursor
EnterDirKeepCursor(b) == [b EXCEPT !.view_mode = "files"]

\* RIGHT in directory view: the files of the directory, cursor on the first
EnterDir(b) == [b EXCEPT !.view_mode = "files", !.current_file = 0]

\* what the walk can find: no directory at the path, no file, or files
\* grouped by directory, the directory names in sorted order
BrowserInit ==
    /\ cfg = Base /\ run = 1 /\ prev = <<>> /\ Fresh /\ Idle("browser")
    /\ \E tr \in
           {[exists |-> FALSE, dirs |-> <<>>, file_tree |-> <<>>],
            [exists |-> TRUE, dirs |-> <<>>, file_tree |-> <<>>],
            [exists |-> TRUE, dirs |-> <<"/">>, file_tree |-> <<(<<"a.py">>)>>],
            [exists |-> TRUE, dirs |-> <<"/", "src">>,
             file_tree |-> << <<"a.py", "b.txt">>, <<"src/m.py">> >>],
            [exists |-> TRUE, dirs |-> <<"lib", "src">>,
             file_tree |-> << <<"lib/u.py">>, <<"src/m.py", "src/n.py", "src/o.py">> >>]} :
           browser = [pc |-> "called", exists |-> tr.exists, dirs |-> tr.dirs,
                      file_tree |-> tr.file_tree, view_mode |-> "dirs",
                      current_dir |-> 0, current_file |-> 0, selected_files |-> {},
                      key |-> "", was |-> [view_mode |-> "dirs", current_dir |-> 0, selected_files |-> {}],
                      presses |-> 0, ret |-> [kind |-> "none", val |-> {}]]

\* the entry of interactive_file_browser: None for a path that is no
\* directory, [] when no file is found, else the loop
BrowseStart ==
    /\ browser.pc = "called"
    /\ browser' =
         IF ~browser.exists THEN [browser EXCEPT !.pc = "returned"]
         ELSE IF browser.dirs = <<>>
              THEN [browser EXCEPT !.pc = "returned", !.ret = [kind |-> "list", val |-> {}]]
         ELSE [browser EXCEPT !.pc = "loop"]
    /\ UNCHANGED <<mainVars, mini, life, wiz, menu, dialog>>

\* one turn of the loop: getch, then the branch of the key
BrowseKey ==
    /\ browser.pc = "loop" /\ browser.presses < MaxKeys
    /\ \E key \in Keys \cup {"a", "A", "n", "N"} :
        LET files == browser.file_tree[browser.current_dir + 1]
            path == files[browser.current_file + 1]
            inFiles == browser.view_mode = "files"
            b == [browser EXCEPT !.key = key, !.presses = @ + 1,
                                 !.was = [view_mode |-> browser.view_mode,
                                          current_dir |-> browser.current_dir,
                                          selected_files |-> browser.selected_files]]
            move(d) == IF inFiles
                       THEN [b EXCEPT !.current_file = (browser.current_file + d) % Len(files)]
                       ELSE [b EXCEPT !.current_dir = (browser.current_dir + d) % Len(browser.dirs)]
        IN  browser' =
              IF key = "UP" THEN move(-1)
              ELSE IF key = "DOWN" THEN move(1)
              ELSE IF key = "RIGHT" THEN (IF inFiles THEN b ELSE EnterDir(b))
              ELSE IF key = "LEFT" THEN [b EXCEPT !.view_mode = "dirs"]
              ELSE IF key \in {"\r", "\n"}
                   THEN [b EXCEPT !.pc = "returned",
                                  !.ret = [kind |-> "list", val |-> browser.selected_files]]
              ELSE IF key = " "
                   THEN (IF inFiles
                         THEN [b EXCEPT !.selected_files = Toggle(browser.selected_files, path)]
                         ELSE b)
              ELSE IF key \in {"a", "A"}
                   THEN (IF inFiles
                         THEN [b EXCEPT !.selected_files = browser.selected_files \cup SeqRange(files)]
                         ELSE b)
              ELSE IF key \in {"n", "N"}
                   THEN (IF inFiles
                         THEN [b EXCEPT !.selected_files = browser.selected_files \ SeqRange(files)]
                         ELSE b)
              ELSE IF key \in {"q", "Q", "ESC"} THEN [b EXCEPT !.pc = "returned"]
              ELSE b
    /\ UNCHANGED <<mainVars, mini, life, wiz, menu, dialog>>

BrowserSpec == BrowserInit /\ [][BrowseStart \/ BrowseKey]_vars

(***************************************************************************)
(* interactive_mode of main.py and the branch of main that runs its answer *)
(***************************************************************************)
\* a menu answers None when q, Q or ESC is pressed; every step below marks
\* in quit the menus that were left that way
DialogInit ==
    /\ cfg = Base /\ run = 1 /\ prev = <<>> /\ Fresh /\ Idle("dialog")
    /\ dialog = [pc |-> "mode", use_file_browser |-> FALSE, project_type |-> "",
                 folder_path |-> "", selected_files |-> "None", filter_choice |-> "None",
                 prompts |-> FALSE, output_format |-> "", minify |-> FALSE,
                 copy_to_clipboard |-> FALSE, quit |-> {}, ret |-> "pending",
                 cancelled |-> FALSE, structure_read |-> FALSE, written |-> FALSE]

\* step 1: the mode menu
ChooseMode ==
    /\ dialog.pc = "mode"
    /\ \E mode_choice \in {"None", "standard", "browser"} :
           dialog' = IF mode_choice = "None" THEN [dialog EXCEPT !.pc = "returned", !.ret = "None", !.quit = @ \cup {"mode"}]
                     ELSE [dialog EXCEPT !.use_file_browser = mode_choice = "browser", !.pc = "type"]
    /\ UNCHANGED <<mainVars, mini, life, wiz, menu, browser>>

\* step 2: the project type menu
ChooseType ==
    /\ dialog.pc = "type"
    /\ \E project_type_display \in {"None", "generic", "python"} :
           dialog' = IF project_type_display = "None" THEN [dialog EXCEPT !.pc = "returned", !.ret = "None", !.quit = @ \cup {"type"}]
                     ELSE [dialog EXCEPT !.project_type = project_type_display, !.pc = "path"]
    /\ UNCHANGED <<mainVars, mini, life, wiz, menu, browser>>

\* step 3: the folder path, typed: empty for the working directory, a URL
\* that clones or not, a path that validate_path accepts or not
EnterPath ==
    /\ dialog.pc = "path"
    /\ \E folder_input \in {"", "http ok", "http fails", "dir", "no dir"} :
           dialog' = IF folder_input \in {"http fails", "no dir"} THEN [dialog EXCEPT !.pc = "returned", !.ret = "None"]
                     ELSE [dialog EXCEPT !.folder_path = IF folder_input = "" THEN "cwd"
                                                          ELSE IF folder_input = "http ok" THEN "temp_repo"
                                                          ELSE "dir",
                                          !.pc = IF dialog.use_file_browser THEN "browser" ELSE "filters"]
    /\ UNCHANGED <<mainVars, mini, life, wiz, menu, browser>>

\* step 4, file browser mode: None cancels, a list goes on
BrowseFiles ==
    /\ dialog.pc = "browser"
    /\ \E selected_files \in {"None", "[]", "[a.py]"} :
           dialog' = IF selected_files = "None" THEN [dialog EXCEPT !.pc = "returned", !.ret = "None", !.quit = @ \cup {"browser"}]
                     ELSE [dialog EXCEPT !.selected_files = selected_files, !.pc = "prompts"]
    /\ UNCHANGED <<mainVars, mini, life, wiz, menu, browser>>

\* step 4, standard mode: the multi-select menu of filters; None counts as
\* no filter chosen
ChooseFilters ==
    /\ dialog.pc = "filters"
    /\ \E filter_choice \in {"None", "[]", "[keyword]"} :
           dialog' = IF filter_choice = "None"
                     THEN [dialog EXCEPT !.filter_choice = "None", !.pc = "prompts", !.quit = @ \cup {"filters"}]
                     ELSE [dialog EXCEPT !.filter_choice = filter_choice, !.pc = "prompts"]
    /\ UNCHANGED <<mainVars, mini, life, wiz, menu, browser>>

\* step 5: the prompt templates, typed as numbers
SelectPrompts ==
    /\ dialog.pc = "prompts"
    /\ \E some \in BOOLEAN : dialog' = [dialog EXCEPT !.prompts = some, !.pc = "format"]
    /\ UNCHANGED <<mainVars, mini, life, wiz, menu, browser>>

\* step 6: the output format menu
ChooseFormat ==
    /\ dialog.pc = "format"
    /\ \E format_choice \in {"None", "txt", "json", "md", "html"} :
           dialog' = IF format_choice = "None" THEN [dialog EXCEPT !.pc = "returned", !.ret = "None", !.quit = @ \cup {"format"}]
                     ELSE [dialog EXCEPT !.output_format = format_choice, !.pc = "minify"]
    /\ UNCHANGED <<mainVars, mini, life, wiz, menu, browser>>

\* step 7: minify = (minify_choice == minify_options[0])
ChooseMinify ==
    /\ dialog.pc = "minify"
    /\ \E minify_choice \in {"None", "yes", "no"} :
           dialog' = IF minify_choice = "None"
                     THEN [dialog EXCEPT !.minify = FALSE, !.pc = "clipboard", !.quit = @ \cup {"minify"}]
                     ELSE [dialog EXCEPT !.minify = minify_choice = "yes", !.pc = "clipboard"]
    /\ UNCHANGED <<mainVars, mini, life, wiz, menu, browser>>

\* step 8: copy_to_clipboard = (clipboard_choice == clipboard_options[0]),
\* then the answers are returned
ChooseClipboard ==
    /\ dialog.pc = "clipboard"
    /\ \E clipboard_choice \in {"None", "yes", "no"} :
           LET d == [dialog EXCEPT !.copy_to_clipboard = clipboard_choice = "yes",
                                    !.pc = "returned", !.ret = "dict"]
           IN  dialog' = IF clipboard_choice = "None" THEN [d EXCEPT !.quit = @ \cup {"clipboard"}] ELSE d
    /\ UNCHANGED <<mainVars, mini, life, wiz, menu, browser>>

\* main after interactive_mode: 'Operation cancelled.' for None, else the
\* structure and the contents are read and the output is saved
RunInteractive ==
    /\ dialog.pc = "returned"
    /\ dialog' = IF dialog.ret = "None"
                 THEN [dialog EXCEPT !.pc = "done", !.cancelled = TRUE]
                 ELSE [dialog EXCEPT !.pc = "done", !.structure_read = TRUE, !.written = TRUE]
    /\ UNCHANGED <<mainVars, mini, life, wiz, menu, browser>>

DialogSpec ==
    DialogInit /\ [][ChooseMode \/ ChooseType \/ EnterPath \/ BrowseFiles \/ ChooseFilters
                     \/ SelectPrompts \/ ChooseFormat \/ ChooseMinify \/ ChooseClipboard
                     \/ RunInteractive]_vars

(***************************************************************************)
(* interactive_mode of utils/ui_utils.py: ten typed answers, with 'back'   *)
(***************************************************************************)
\* len(prompts)
NumPrompts == 10

WizInit ==
    /\ cfg = Base /\ run = 1 /\ prev = <<>> /\ Fresh /\ Idle("wiz")
    /\ wiz = [pc |-> "loop", i |-> 0, results |-> [k \in 0..(NumPrompts - 1) |-> "None"],
              answered |-> {}, input |-> "", from |-> 0]

\* one turn of the while loop: the prompt of step i, input(), and the
\* branch the input takes. What can be typed: 'back', 'back <n>', 'back'
\* with a second word that is no number, a word that only starts with
\* 'back', a path that validate_path refuses, an answer, and nothing
WizInput ==
    /\ wiz.pc = "loop" /\ wiz.i < NumPrompts
    /\ \E user_input \in
            {[kind |-> k, step |-> 0] :
                k \in {"back", "back word", "backs", "refused", "answer", "empty"}}
            \cup {[kind |-> "back n", step |-> n] : n \in 0..NumPrompts} :
        LET i == wiz.i
            w == [wiz EXCEPT !.input = user_input.kind, !.from = i]
            isBack == user_input.kind \in {"back", "back n", "back word", "backs"}
            \* prompts[i][2], or validate_path and clone_remote_repo at step 1;
            \* an unknown project type becomes the suggested one
            processed_input ==
                IF i \in {0, 1} THEN "value"
                ELSE IF user_input.kind = "empty" THEN "None" ELSE "value"
        IN  wiz' =
              IF user_input.kind = "back" /\ i > 0
              THEN [w EXCEPT !.i = i - 1, !.results[i - 1] = "None",
                             !.answered = @ \ {i - 1}]
              ELSE IF isBack
              THEN IF user_input.kind = "back n"
                   THEN (IF user_input.step < NumPrompts
                         THEN [w EXCEPT !.i = user_input.step]
                         ELSE w)
                   ELSE IF i > 0
                        THEN [w EXCEPT !.i = i - 1]
                        ELSE w
              ELSE IF i = 1 /\ user_input.kind = "refused" THEN w
              ELSE [w EXCEPT !.results[i] = processed_input, !.i = i + 1,
                             !.answered = @ \cup {i}]
    /\ UNCHANGED <<mainVars, mini, life, menu, browser, dialog>>

\* the loop ends and results is returned
WizReturn ==
    /\ wiz.pc = "loop" /\ wiz.i >= NumPrompts
    /\ wiz' = [wiz EXCEPT !.pc = "returned"]
    /\ UNCHANGED <<mainVars, mini, life, menu, browser, dialog>>

WizSpec == WizInit /\ [][WizInput \/ WizReturn]_vars

TypeOK ==
    /\ cfg \in Configs
    /\ pc \in {"start", "validated", "structured", "pool", "joined", "formatted", "done", "exit1"}
    /\ run \in 1..MaxRuns
    /\ Len(task) = Len(file_list) /\ Len(slot) = Len(file_list)
    /\ Len(results) <= Len(file_list)

(***************************************************************************)
(* Properties                                                              *)
(***************************************************************************)
\* get_file_contents returned the error text of its except branch
Aborted == IsPrefix(Str_ErrProc, contents)

\* get_file_contents has built file_list, or has given up building it
Collected == pc \in {"pool", "joined", "formatted", "done"}

\* get_file_contents has returned the joined results of the pool
Joined == pc \in {"joined", "formatted", "done"} /\ ~Aborted

TreeUnchanged == cfg.fault.kind \notin {"statS", "statC"} /\ cfg.dirFault.kind # "gone"

\* C2: runs over the same unchanged tree with the same arguments end the
\* same way, with the same structure listing, contents and output, whatever
\* the scheduling of the workers was in each run.
C2_RunsAgree ==
    (TreeUnchanged /\ Ended) =>
        \A k \in 1..Len(prev) :
            /\ prev[k].pc = pc
            /\ prev[k].structure = structure
            /\ RenderStructure(prev[k].structure) = RenderStructure(structure)
            /\ prev[k].file_list = file_list
            /\ prev[k].contents = contents
            /\ prev[k].output = output

\* a second run that read five files and produced its output
C2_Witness ==
    /\ run = 2
    /\ pc = "done"
    /\ Len(file_list) = 5
    /\ Len(prev) = 1 /\ prev[1].pc = "done"
    /\ output # <<>>

\* the regular files the structure listing shows
ShownFiles(entries) == {entries[i].node : i \in {j \in 1..Len(entries) : entries[j].kind = "file"}}

\* the directories the structure listing shows
ShownDirs(entries) == {entries[i].node : i \in {j \in 1..Len(entries) : entries[j].kind = "dir"}}

\* d is a directory on the path from the root to n, the root included
IsAncestor(d, n) == d \in DirNodes /\ d # n /\ IsPrefix(Segs(d), Segs(n))

\* the failure of the one file that fails, "none" for every other file
FailureOf(f) == IF cfg.fault.node = f THEN cfg.fault.kind ELSE "none"

\* the same tree and arguments with no failure
FaultFree == [cfg EXCEPT !.fault = NoFault, !.dirFault = NoFault]

\* C3 (as amended): the walk of get_file_contents visits a file when the
\* file still exists, every directory above it can be listed, no part of
\* the absolute path of its directory (split at the separator, the empty
\* leading part included) is an excluded folder name, the folder filter is
\* unset or a substring of that path, its lowercased extension is not
\* excluded, and the allow-list is None or holds its relative path.  If a
\* visited file cannot be stat'ed while min_size > 0 or modified_after is
\* set, get_file_contents reads nothing and returns the error text.
\* Otherwise a file is in the list of files read if and only if it is
\* visited, its size is not below a positive min_size and its modification
\* time is not before modified_after.
C3_FileListMatchesCriteria ==
    Collected =>
        LET reached(f) ==
                /\ FailureOf(f) # "statS"
                /\ cfg.rootKind = "dir"
                /\ \A d \in DirNodes : IsAncestor(d, f) => cfg.dirFault.node # d
            dirParts(f) == {<<>>} \cup SeqRange(Segs(NodeParent[f]))
            folderExcluded(f) == dirParts(f) \cap cfg.exclude_folders # {}
            folderFiltered(f) ==
                cfg.filter_folder # <<>> /\ ~IsSubstr(cfg.filter_folder, NodePathStr(NodeParent[f]))
            extExcluded(f) == Lower(SplitExt(NodeName[f])) \in cfg.exclude_extensions
            notSelected(f) == cfg.selected.active /\ RelPathStr(f) \notin cfg.selected.paths
            visited(f) ==
                /\ reached(f)
                /\ ~folderExcluded(f) /\ ~folderFiltered(f)
                /\ ~extExcluded(f) /\ ~notSelected(f)
            statNeeded == cfg.min_size > 0 \/ cfg.modified_after # NoDate
            statFails(f) == FailureOf(f) \in {"broken", "statC"}
            tooSmall(f) == cfg.min_size > 0 /\ FileSize(cfg, f) < cfg.min_size
            tooOld(f) == cfg.modified_after # NoDate /\ NodeMtime[f] < cfg.modified_after
        IN  IF statNeeded /\ \E f \in FileNodes : visited(f) /\ statFails(f)
            THEN file_list = <<>> /\ Aborted
            ELSE /\ ~Aborted
                 /\ \A f \in FileNodes :
                        f \in SeqRange(file_list) <=> (visited(f) /\ ~tooSmall(f) /\ ~tooOld(f))
                 /\ Cardinality(SeqRange(file_list)) = Len(file_list)

\* with every filter set, some files are taken and some are left out
C3_Witness ==
    /\ pc = "pool"
    /\ cfg.exclude_folders # {} /\ cfg.exclude_extensions # {} /\ cfg.filter_folder # <<>>
    /\ cfg.min_size > 0 /\ cfg.modified_after # NoDate
    /\ 3 \in SeqRange(file_list)
    /\ 9 \notin SeqRange(file_list)

\* C3 (as stated): on a tree where nothing fails, a file is in the list of
\* files read if and only if no directory segment of its path is an excluded
\* folder name, its extension is not excluded, the allow-list does not leave
\* it out, and it is neither too small nor too old.
C3_Original ==
    (Collected /\ cfg.fault = NoFault /\ cfg.dirFault = NoFault /\ cfg.rootKind = "dir") =>
        \A f \in FileNodes :
            f \in SeqRange(file_list) <=>
                ~ \/ SeqRange(Segs(NodeParent[f])) \cap cfg.exclude_folders # {}
                  \/ Lower(SplitExt(NodeName[f])) \in cfg.exclude_extensions
                  \/ cfg.selected.active /\ RelPathStr(f) \notin cfg.selected.paths
                  \/ FileSize(cfg, f) < cfg.min_size
                  \/ cfg.modified_after # NoDate /\ NodeMtime[f] < cfg.modified_after

\* C4 (as amended): a file whose full read or decoding raises after its
\* sample was classified as text contributes the result
\* "[ERROR] Could not read <path>: <message>"; a file that cannot be opened
\* for the sample read is treated as binary and contributes nothing; in both
\* cases the list of files is the one of the failure-free tree, every other
\* file gets the result it has there, and the joined contents hold one
\* result per file.
C4_ReadFailureIsLocal ==
    cfg.fault.kind \in {"noopen", "noread", "badcodec"} =>
        /\ \A i \in 1..Len(results) :
               LET f == file_list[i]
               IN  /\ FailureOf(f) = "noread" =>
                           results[i] = [kind |-> "error", text |-> ErrBlock(f, Err_EIO)]
                   /\ FailureOf(f) = "badcodec" =>
                           results[i] = [kind |-> "error", text |-> ErrBlock(f, Err_Codec \o <<"x">>)]
                   /\ FailureOf(f) = "noopen" => results[i] = None
                   /\ FailureOf(f) = "none" => results[i] = read_file(FaultFree, f)
        /\ Collected => file_list = build_file_list(FaultFree).files /\ ~Aborted
        /\ Joined => Len(results) = Len(file_list)
        /\ pc = "done" => output # <<>>

\* the full read of one file failed, and a later file got its block
C4_Witness ==
    /\ pc = "done"
    /\ cfg.fault.kind = "noread"
    /\ \E i, j \in 1..Len(results) :
           i < j /\ results[i].kind = "error" /\ results[j].kind = "block"
    /\ IsSubstr(Str_ErrRead, output)

\* C4 (as stated): a file that cannot be opened, read or decoded contributes
\* an [ERROR] result.
C4_Original ==
    \A i \in 1..Len(results) :
        FailureOf(file_list[i]) \in {"noopen", "noread", "badcodec"} => results[i].kind = "error"

\* C5: a block emitted for a file whose text matches a sensitive pattern is
\* the block of the marker [MASKED SENSITIVE CONTENT]: it holds neither the
\* secret value nor a line of the original text, whatever minify, keyword
\* and regex are, and the file with the other secret value yields the same
\* result.
C5_SensitiveContentMasked ==
    \A i \in 1..Len(results) :
        LET f == file_list[i]
            text == FileText(cfg, f)
            other == [cfg EXCEPT !.secret = 3 - cfg.secret]
        IN  (check_sensitive_content(text) /\ FailureOf(f) = "none") =>
                /\ results[i] = read_file(other, f)
                /\ results[i].kind = "block" =>
                       /\ results[i].text = Block(f, MASKED)
                       /\ ~IsSubstr(SubSeq(text, 12, 13), results[i].text)
                       /\ \A l \in 1..Len(SplitLines(text)) :
                              SplitLines(text)[l] # <<>> => ~IsSubstr(SplitLines(text)[l], results[i].text)

\* the masked block of k.py emitted with minification and a keyword filter on
C5_Witness ==
    /\ cfg.minify /\ cfg.keyword = Kw_masked
    /\ \E i \in 1..Len(results) :
           /\ file_list[i] = 5
           /\ results[i].kind = "block"
           /\ IsSubstr(MASKED, results[i].text)

\* an entry of the listing belongs to the subtree of directory d
Under(e, d) == IsAncestor(d, e.node) \/ (e.kind = "error" /\ e.node = d)

\* C6: in the listing of get_structure the entries of the subtree of a
\* directory come after the entry of the directory, and they follow it
\* without a gap: nothing outside the subtree stands between the directory
\* and one of its descendants.
C6_ParentBeforeChildren ==
    \A i \in 1..Len(structure) :
        structure[i].kind = "dir" =>
            \A j \in 1..Len(structure) :
                Under(structure[j], structure[i].node) =>
                    /\ i < j
                    /\ \A k \in (i + 1)..j : Under(structure[k], structure[i].node)

\* src, then k.py two levels below it, then the next sibling of src
C6_Witness ==
    \E i, j, k \in 1..Len(structure) :
        /\ i < j /\ j < k
        /\ structure[i].kind = "dir" /\ structure[i].node = 2
        /\ structure[j].kind = "file" /\ structure[j].node = 5
        /\ structure[k].node \in {6, 8}

\* C7 (as stated): on a tree where nothing fails, get_structure lists an
\* entry exactly when all its ancestor directories below the root are listed
\* and the entry is a directory whose name is not excluded and contains the
\* folder filter when one is set, or a file whose extension is not excluded.
C7_ListedExactlyWhenNotExcluded ==
    (pc \in {"structured", "pool", "joined", "formatted", "done"}
        /\ cfg.fault = NoFault /\ cfg.dirFault = NoFault) =>
        \A n \in Nodes \ {RootNode} :
            n \in (ShownFiles(structure) \cup ShownDirs(structure)) <=>
                /\ \A d \in DirNodes \ {RootNode} : IsAncestor(d, n) => d \in ShownDirs(structure)
                /\ IF n \in DirNodes
                   THEN /\ NodeName[n] \notin cfg.exclude_folders
                        /\ cfg.filter_folder # <<>> => IsSubstr(cfg.filter_folder, NodeName[n])
                   ELSE Lower(SplitExt(NodeName[n])) \notin cfg.exclude_extensions

\* C8 (as stated): only an invalid root makes the run end without output;
\* with a valid root and a writable output directory the run that ends has
\* produced and saved its output.
C8_OnlyInvalidRootEndsWithoutOutput ==
    (Ended /\ cfg.rootKind = "dir" /\ cfg.save_ok) => (pc = "done" /\ saved /\ output # <<>>)

\* C9 (as stated): when one file cannot be stat'ed, the run still produces
\* the entry of every other file that the listing of the failure-free tree
\* shows and the result of every other file that is read there.
C9_StatFailureSkipsOneFile ==
    (Ended /\ cfg.fault.kind \in {"broken", "statS", "statC"}) =>
        /\ \A f \in ShownFiles(get_structure(FaultFree, RootNode, 0).entries) :
               FailureOf(f) = "none" => f \in ShownFiles(structure)
        /\ \A f \in SeqRange(build_file_list(FaultFree).files) :
               FailureOf(f) = "none" =>
                   \E i \in 1..Len(results) : file_list[i] = f /\ results[i] = read_file(FaultFree, f)

Shape(e) == [kind |-> e.kind, node |-> e.node, depth |-> e.depth, last |-> e.last]

\* the listing without the entries of the subtree of directory d, sizes left out
OutsideOf(entries, d) ==
    LET rest == SelectSeq(entries, LAMBDA e : ~Under(e, d))
    IN  [i \in 1..Len(rest) |-> Shape(rest[i])]

C12_BinaryContributesNothing ==
    \A i \in 1..Len(file_list) :
        LET f == file_list[i]
        IN  FailureOf(f) \in {"lowconf", "noenc", "noopen", "broken", "statC"} =>
                /\ f \notin fullread
                /\ task[i] = "done" => slot[i] = None
                /\ i <= Len(results) => results[i] = None
                /\ Joined => ~IsSubstr(NodePathStr(f), contents)

\* a.py was classified as binary on low confidence, the other files were read
C12_Witness ==
    /\ pc = "done"
    /\ cfg.fault = [node |-> 3, kind |-> "lowconf"]
    /\ 3 \in SeqRange(file_list) /\ 3 \in opened
    /\ fullread # {}
    /\ \E i \in 1..Len(results) : results[i].kind = "block"

\* the number of backslashes that stand right before position i
RECURSIVE BackslashRun(_, _)
BackslashRun(s, i) == IF i > 1 /\ s[i - 1] = "\\" THEN 1 + BackslashRun(s, i - 1) ELSE 0

\* json.loads of the text between the quotes of a JSON string; ok is FALSE
\* for a raw control character or an unknown escape
JsonUnescape(t) ==
    LET backslash(i) == t[i] = "\\" /\ BackslashRun(t, i) % 2 = 0
        escaped(i) == BackslashRun(t, i) % 2 = 1
        kept == SelectSeq([i \in 1..Len(t) |-> i], LAMBDA i : ~backslash(i))
        char(i) ==
            IF ~escaped(i) THEN t[i]
            ELSE IF t[i] = "n" THEN "\n"
            ELSE IF t[i] = "t" THEN "\t"
            ELSE t[i]
    IN  [ok |-> /\ \A i \in 1..Len(t) : ~escaped(i) => t[i] \notin {"\n", "\t"}
                /\ \A i \in 1..Len(t) : escaped(i) => t[i] \in {"n", "t", "\"", "\\"}
                /\ (Len(t) > 0 => ~backslash(Len(t))),
         value |-> [k \in 1..Len(kept) |-> char(kept[k])]]

\* json.loads of an object whose values are strings: the members in order,
\* or ok = FALSE when the text is not such an object
JsonParse(s) ==
    LET q == SelectSeq([i \in 1..Len(s) |-> i],
                       LAMBDA i : s[i] = "\"" /\ BackslashRun(s, i) % 2 = 0)
        n == Len(q) \div 4
        token(k) == JsonUnescape(SubSeq(s, q[k] + 1, q[k + 1] - 1))
        between(k) == SubSeq(s, q[k] + 1, q[k + 1] - 1)
        blank(t) == \A i \in 1..Len(t) : t[i] \in {" ", "\n", "\t"}
        sepOk(t, ch) ==
            \E i \in 1..Len(t) : t[i] = ch /\ blank(SubSeq(t, 1, i - 1)) /\ blank(SubSeq(t, i + 1, Len(t)))
    IN  IF Len(q) = 0 \/ Len(q) % 4 # 0 THEN [ok |-> FALSE, members |-> <<>>]
        ELSE [ok |-> /\ sepOk(SubSeq(s, 1, q[1] - 1), "{")
                     /\ sepOk(SubSeq(s, q[Len(q)] + 1, Len(s)), "}")
                     /\ \A m \in 1..n :
                            /\ token(4 * m - 3).ok /\ token(4 * m - 1).ok
                            /\ sepOk(between(4 * m - 2), ":")
                            /\ m < n => sepOk(between(4 * m), ","),
              members |-> [m \in 1..n |-> [key |-> token(4 * m - 3).value,
                                           value |-> token(4 * m - 1).value]]]

Key_prompt == <<"p","r","o","m","p","t">>
Key_folder_structure == <<"f","o","l","d","e","r","_","s","t","r","u","c","t","u","r","e">>
Key_file_contents == <<"f","i","l","e","_","c","o","n","t","e","n","t","s">>

\* format_output has produced the output of this run
Formatted == pc = "formatted"

BareOutput == format_output(RenderStructure(structure), contents, cfg.output_format, <<>>)

WithoutDate == build_file_list([cfg EXCEPT !.modified_after = NoDate])

\* the contents hold the block of file f
Included(f) == \E i \in 1..Len(results) : file_list[i] = f /\ results[i].kind = "block"

WithoutSelection == build_file_list([cfg EXCEPT !.selected = NoSelection])

\* C16 (as stated): with an allow-list that is absent or is the empty list
\* no file is excluded for being outside the selection, so the files
\* collected are those that pass the other filters.
C16_EmptyAllowListExcludesNothing ==
    (Collected /\ (~cfg.selected.active \/ cfg.selected.paths = {})) =>
        file_list = WithoutSelection.files

\* read_file can open, read and decode file f
Readable(f) == ~is_binary_file(cfg, f) /\ FailureOf(f) \notin {"noread", "badcodec"}

\* the keyword is unset, or occurs in the text when letter case is ignored
KeywordOk(text) ==
    cfg.keyword = <<>> \/ \E i \in 0..(Len(text) - Len(cfg.keyword)) :
        \A k \in 1..Len(cfg.keyword) : LowerChar(text[i + k]) = LowerChar(cfg.keyword[k])

\* the regex is unset, or matches in the text when letter case is ignored
RegexOk(text) ==
    cfg.regex = NoRegex
    \/ RegexSearchCase([cfg.regex EXCEPT !.lit = [k \in 1..Len(@) |-> LowerChar(@[k])]],
                       [k \in 1..Len(text) |-> LowerChar(text[k])])

\* the header line read_file writes for file f
HeaderOf(f) == Str_File \o NodePathStr(f) \o <<"\n">>

\* C17: a file of the file list that is not binary and can be read
\* contributes its content block if and only if the keyword, when set,
\* occurs in its content ignoring letter case and the regex, when set,
\* matches in its content ignoring letter case, the content being the text
\* after masking and minification; a file that fails either test
\* contributes nothing: its result is None and the contents do not name it.
C17_BlockIffKeywordAndRegex ==
    Joined =>
        \A i \in 1..Len(file_list) :
            LET f == file_list[i]
                shown == ShownContent(cfg, f)
            IN  Readable(f) =>
                    IF KeywordOk(shown) /\ RegexOk(shown)
                    THEN /\ results[i] = [kind |-> "block", text |-> Block(f, shown)]
                         /\ IsSubstr(Block(f, shown), contents)
                    ELSE /\ results[i] = None
                         /\ ~IsSubstr(HeaderOf(f), contents)

\* with minification on and a keyword that a.py holds in a comment only and
\* k.py in no place, a.py contributes nothing and k.py contributes its
\* masked block
C17_Witness ==
    /\ Joined /\ pc = "done" /\ cfg.minify /\ cfg.keyword = <<"c">>
    /\ KeywordOk(FileText(cfg, 3)) /\ ~KeywordOk(ShownContent(cfg, 3))
    /\ ~KeywordOk(FileText(cfg, 5)) /\ KeywordOk(ShownContent(cfg, 5))
    /\ \E i \in 1..Len(file_list) : file_list[i] = 3 /\ results[i] = None
    /\ \E i \in 1..Len(file_list) : file_list[i] = 5 /\ results[i].kind = "block"
    /\ ~IsSubstr(HeaderOf(3), contents) /\ IsSubstr(HeaderOf(5), contents)

\* an extension or an entry of the excluded extensions, lowercased and
\* without its leading dot
NormExt(e) == Lower(IF e # <<>> /\ Head(e) = "." THEN Tail(e) ELSE e)

\* C18 (as stated): a file whose extension equals an entry of the excluded
\* extensions, ignoring letter case and a leading dot of the entry, is in
\* neither the structure listing nor the list of files collected.
C18_ExtensionExcludedIgnoringCaseAndDot ==
    Collected =>
        \A f \in FileNodes :
            (SplitExt(NodeName[f]) # <<>>
                /\ \E e \in cfg.exclude_extensions : NormExt(e) = NormExt(SplitExt(NodeName[f]))) =>
                /\ f \notin ShownFiles(structure)
                /\ f \notin SeqRange(file_list)

\* minify_content has returned
Minified == mini.pc = "minified"

\* a line that holds a triple quote
HasTriple(line) == IsSubstr(<<"\"", "\"", "\"">>, line) \/ IsSubstr(<<"'", "'", "'">>, line)

\* a line of whitespace only
Blank(line) == \A i \in 1..Len(line) : line[i] \in Whitespace

\* a line whose trimmed form starts with '#'
HashLine(line) ==
    \E i \in 1..Len(line) : line[i] = "#" /\ \A j \in 1..(i - 1) : line[j] \in Whitespace

\* line i stands inside a triple-quoted block: an odd number of lines with
\* a triple quote precede it
InBlock(ls, i) == Cardinality({j \in 1..(i - 1) : HasTriple(ls[j])}) % 2 = 1

\* the lines of ls at the indices that satisfy keep, in order
LinesWhere(ls, keep(_)) ==
    LET idx == SelectSeq([i \in 1..Len(ls) |-> i], keep)
    IN  [k \in 1..Len(idx) |-> ls[idx[k]]]

\* the lines of a text, none for the empty text
LinesOf(text) == IF text = <<>> THEN <<>> ELSE SplitLines(text)

\* C19 (amended): minify_content on a '#'-comment (.py) file removes every
\* line whose trimmed form starts with '#' outside triple-quoted blocks and
\* every blank line, wherever it stands, and keeps every other line
\* unchanged and in order (a line that holds a triple quote is kept and
\* opens or closes a block); no blank line is left, and the kept lines are
\* joined by single line breaks with no line break at the end: the lines
\* '# comment', 'x = 1', three blank lines, 'y = 2' become 'x = 1',
\* 'y = 2'.
C19_PyMinifyDropsCommentsAndBlankLines ==
    (Minified /\ mini.file_ext = Ext_py) =>
        LET ls == SplitLines(mini.content)
            keep(i) == \/ HasTriple(ls[i])
                       \/ ~Blank(ls[i]) /\ ~(HashLine(ls[i]) /\ ~InBlock(ls, i))
        IN  /\ LinesOf(mini.result) = LinesWhere(ls, keep)
            /\ \A k \in 1..Len(LinesOf(mini.result)) : ~Blank(LinesOf(mini.result)[k])

\* the text of the example, a comment, a line of code, three blank lines
\* and a line of code, has become the two lines of code
C19_Witness ==
    /\ Minified /\ mini.file_ext = Ext_py
    /\ mini.content = <<" ", "#", "c", "\n", "x", "\n", "\n", "\n", "\n", "x">>
    /\ mini.result = <<"x", "\n", "x">>

\* C19 as stated: the comment lines outside triple-quoted blocks are
\* removed, the non-blank lines are kept, a run of two or more blank lines
\* becomes one blank line and a single blank line stays
C19_Original ==
    (Minified /\ mini.file_ext = Ext_py) =>
        LET ls == SplitLines(mini.content)
            code == LinesWhere(ls, LAMBDA i : ~(HashLine(ls[i]) /\ ~InBlock(ls, i) /\ ~HasTriple(ls[i])))
            stated == LinesWhere(code, LAMBDA i : ~Blank(code[i]) \/ i = 1 \/ ~Blank(code[i - 1]))
            got == SplitLines(mini.result)
        IN  /\ Len(got) = Len(stated)
            /\ \A k \in 1..Len(got) : got[k] = stated[k] \/ (Blank(got[k]) /\ Blank(stated[k]))

\* the extensions of the four rule families of minify_content
FamilyExts ==
    {Ext_py}
    \cup ExtSet(<< <<"j", "s">>, <<"t", "s">>, <<"j", "s", "x">>, <<"t", "s", "x">>, <<"j", "a", "v", "a">>, <<"c", "s">>, <<"g", "o">>, <<"p", "h", "p">> >>)
    \cup ExtSet(<< <<"h", "t", "m", "l">>, <<"x", "m", "l">>, <<"c", "s", "s">>, <<"s", "c", "s", "s">> >>)

\* C20 (amended): for an extension of none of the rule families
\* minify_content leaves the first line, the last line and every line that
\* is not blank unchanged and in order, and puts one empty line in the place
\* of each maximal run of blank lines (empty or whitespace only, one line or
\* more) that stand between the first and the last line; a text with no
\* such blank line, and the empty text, are returned as given.
C20_UnknownExtensionCollapsesBlankRuns ==
    (Minified /\ mini.file_ext \notin FamilyExts) =>
        LET ls == SplitLines(mini.content)
            inner(i) == 1 < i /\ i < Len(ls) /\ Blank(ls[i])
            idx == SelectSeq([i \in 1..Len(ls) |-> i], LAMBDA i : ~inner(i) \/ ~inner(i - 1))
        IN  /\ SplitLines(mini.result) = [k \in 1..Len(idx) |-> IF inner(idx[k]) THEN <<>> ELSE ls[idx[k]]]
            /\ (\A i \in 1..Len(ls) : ~inner(i)) => mini.result = mini.content

\* a text with three blank lines between two lines and a blank last line
\* has come back with one empty line between them and its last line as it was
C20_Witness ==
    /\ Minified /\ mini.file_ext = <<".", "t", "x", "t">>
    /\ mini.content = <<"x", "\n", "\n", " ", "\n", "\n", "x", "\n", " ">>
    /\ mini.result = <<"x", "\n", "\n", "x", "\n", " ">>

\* C20 as stated: for an extension of none of the rule families the text
\* comes back exactly as it was given
C20_Original ==
    (Minified /\ mini.file_ext \notin FamilyExts) => mini.result = mini.content

\* get_file_contents has returned, with the joined results or the error text
Returned == pc \in {"joined", "formatted", "done"} \/ (pc = "exit1" /\ err = "save")

\* C21: when get_file_contents returns, and so before the results are
\* joined and format_output runs, every file submitted to the pool has been
\* read: no read_file call is running or waiting in the queue, and one
\* result per submitted file has been collected.
C21_PoolDrainedBeforeAggregation ==
    Returned =>
        /\ Running = {} /\ Queued = {}
        /\ \A i \in DOMAIN task : task[i] = "done"
        /\ Len(results) = Len(file_list)
        /\ (output # <<>> => SeqRange(file_list) \subseteq opened)

\* five files were submitted, more than the pool has workers, and the
\* results were joined after the last of them was read
C21_Witness ==
    /\ pc = "joined"
    /\ Len(file_list) > MaxWorkers
    /\ \A i \in DOMAIN task : task[i] = "done"
    /\ Len(results) = Len(file_list)
    /\ contents # <<>>

\* C22: at every moment of a run at most 4 files are being read by the
\* worker pool, however many files were collected; the files beyond the
\* fourth wait in the queue until a worker is free.
C22_AtMostFourConcurrentReads ==
    /\ Cardinality(Running) <= 4
    /\ MaxWorkers = 4
    /\ (pc = "pool" /\ Queued # {} /\ ~ENABLED WorkerStart) => Cardinality(Running) = 4

\* four files are being read and a fifth one waits
C22_Witness ==
    /\ pc = "pool"
    /\ Len(file_list) = 5
    /\ Cardinality(Running) = 4
    /\ Queued = {5}

\* the number of triple-quote markers a line holds
Markers(line) ==
    Cardinality({i \in 1..(Len(line) - 2) :
                    SubSeq(line, i, i + 2) \in {<<"\"", "\"", "\"">>, <<"'", "'", "'">>}})

\* the markers that stand on the lines before line i
RECURSIVE MarkersBefore(_, _)
MarkersBefore(ls, i) == IF i <= 1 THEN 0 ELSE Markers(ls[i - 1]) + MarkersBefore(ls, i - 1)

\* C24 (as stated): the inside-triple-quote state toggles once for each
\* marker, so that after a one-line docstring the state is 'outside'; a line
\* that starts with '#' and holds no marker is kept exactly when an odd
\* number of markers stand before it.
C24_TogglePerMarker ==
    (Minified /\ mini.file_ext = Ext_py) =>
        LET ls == SplitLines(mini.content)
            keep(i) == \/ HasTriple(ls[i])
                       \/ ~Blank(ls[i]) /\ ~(HashLine(ls[i]) /\ MarkersBefore(ls, i) % 2 = 0)
        IN  LinesOf(mini.result) = LinesWhere(ls, keep)

\* C25 (as stated): with no keyword, regex, min size, date or selection,
\* and when nothing fails, the files get_file_contents selects for reading
\* are the files get_structure lists as [FILE] entries.
C25_ReadSetEqualsListedSet ==
    (Collected /\ cfg.fault = NoFault /\ cfg.dirFault = NoFault
        /\ cfg.min_size = 0 /\ cfg.modified_after = NoDate /\ ~cfg.selected.active) =>
        SeqRange(file_list) = ShownFiles(structure)

\* C23 (as stated): when the run is interrupted, no temporary directory
\* created by the run and no partial output (a file that was opened and not
\* written to the end, or some of the split parts without the others) is
\* on disk when the process exits.
C23_InterruptLeavesNothingPartial ==
    life.pc = "exit0" =>
        /\ ~life.temp
        /\ \/ life.files = <<>>
           \/ Len(life.files) = life.parts /\ \A k \in 1..Len(life.files) : life.files[k] = "written"

\* C30 (as stated): a run creates no file inside the scanned root; the log
\* file and the saved output files lie outside it.
C30_NothingCreatedInsideRoot ==
    /\ ~(life.log /\ life.cwdInRoot)
    /\ ~(life.files # <<>> /\ (life.variant = "ui" \/ life.scriptInRoot))

\* the positions on which SPACE was pressed an odd number of times
OddSpaces == {i \in DOMAIN menu.spaces : menu.spaces[i] % 2 = 1}

\* C28: in select_from_list on a non-empty list the cursor stays within
\* 0..len(items)-1, UP on the first item moves to the last and DOWN on the
\* last to the first; ENTER in multi-select mode returns the items whose
\* position got SPACE an odd number of times, in list order and each once,
\* and ENTER in single-select mode returns the item under the cursor
C28_CursorInRangeAndEnterReturnsToggled ==
    (menu.pc \in {"loop", "returned"} /\ menu.items # <<>>) =>
        LET n == Len(menu.items)
            enter == menu.pc = "returned" /\ menu.key \in {"\r", "\n"}
        IN  /\ menu.current \in 0..(n - 1)
            /\ (menu.key = "UP" /\ menu.from = 0) => menu.current = n - 1
            /\ (menu.key = "DOWN" /\ menu.from = n - 1) => menu.current = 0
            /\ (enter /\ menu.multi_select) =>
                   /\ menu.ret.kind = "list"
                   /\ menu.ret.val =
                        SelectSeq(menu.items, LAMBDA x : \E i \in OddSpaces : menu.items[i + 1] = x)
                   /\ \A j, k \in 1..Len(menu.ret.val) : j # k => menu.ret.val[j] # menu.ret.val[k]
            /\ (enter /\ ~menu.multi_select) =>
                   menu.ret = [kind |-> "item", val |-> menu.items[menu.current + 1]]

\* ENTER returned a non-empty list after a box was ticked and unticked
C28_Witness ==
    /\ menu.pc = "returned" /\ menu.key = "\r" /\ menu.multi_select
    /\ menu.ret.kind = "list" /\ menu.ret.val # <<>>
    /\ \E i \in DOMAIN menu.spaces : menu.spaces[i] = 2

\* every file the browser found
Browsable == UNION {SeqRange(browser.file_tree[d]) : d \in 1..Len(browser.file_tree)}

\* C27: in interactive_file_browser the selected paths are browsable files;
\* current_dir indexes a directory group and, in files view, current_file
\* indexes a file of it; the directory cursor does not move in files view and
\* entering a directory puts the file cursor on 0; SPACE, A and N change the
\* selection only in files view and only among the files of the current
\* directory; ENTER returns the selected set and Q or ESC returns None
C27_BrowserCursorsAndSelection ==
    browser.pc \in {"loop", "returned"} /\ browser.dirs # <<>> =>
        LET files == browser.file_tree[browser.current_dir + 1]
            changed == (browser.selected_files \ browser.was.selected_files)
                       \cup (browser.was.selected_files \ browser.selected_files)
        IN  /\ browser.selected_files \subseteq Browsable
            /\ browser.current_dir \in 0..(Len(browser.dirs) - 1)
            /\ browser.view_mode = "files" => browser.current_file \in 0..(Len(files) - 1)
            /\ browser.was.view_mode = "files" => browser.current_dir = browser.was.current_dir
            /\ (browser.key = "RIGHT" /\ browser.was.view_mode = "dirs") =>
                   browser.view_mode = "files" /\ browser.current_file = 0
            /\ changed # {} =>
                   /\ browser.key \in {" ", "a", "A", "n", "N"}
                   /\ browser.was.view_mode = "files"
                   /\ changed \subseteq SeqRange(files)
            /\ (browser.pc = "returned" /\ browser.key \in {"\r", "\n"}) =>
                   browser.ret = [kind |-> "list", val |-> browser.selected_files]
            /\ (browser.pc = "returned" /\ browser.key \in {"q", "Q", "ESC"}) =>
                   browser.ret.kind = "none"

\* ENTER returned a selection made with A in the second directory, whose
\* files are more than those of the first
C27_Witness ==
    /\ browser.pc = "returned" /\ browser.key = "\r"
    /\ browser.current_dir = 1 /\ browser.view_mode = "files"
    /\ Cardinality(browser.ret.val) = 3

\* C29: when a menu of interactive_mode of main.py was left with Q or ESC,
\* interactive_mode returns None, main prints 'Operation cancelled', and
\* neither the structure is read nor an output file written
C29_QuitCancelsEverything ==
    (dialog.pc = "done" /\ dialog.quit # {}) =>
        /\ dialog.ret = "None" /\ dialog.cancelled
        /\ ~dialog.structure_read /\ ~dialog.written

\* C26: in interactive_mode of ui_utils the step index stays within 0..10, a
\* 'back' or 'back <n>' input never moves to a later step, and the function
\* returns only when each of the ten steps was answered since it was last
\* revisited, so the returned project type and folder path are not None
C26_BackNeverSkipsAStep ==
    /\ wiz.i \in 0..NumPrompts
    /\ wiz.input \in {"back", "back n", "back word", "backs"} => wiz.i <= wiz.from
    /\ wiz.pc = "returned" =>
           /\ wiz.answered = 0..(NumPrompts - 1)
           /\ wiz.results[0] # "None" /\ wiz.results[1] # "None"

====
